---- MODULE Spec2Model ----
(***************************************************************************)
(* Learning memory core of pho-go: the forgetting-curve engine             *)
(* (src/src/lib/analytics/forgettingCurveEngine.ts), the part of the       *)
(* progress store that feeds it (src/src/stores/userProgressStore.ts) and  *)
(* the hook operations that call it                                        *)
(* (src/src/lib/hooks/useSpacedRepetition.ts).                             *)
(*                                                                         *)
(* Number representation.  JavaScript numbers that are fractions are kept  *)
(* as fixed-point integers in millionths ("micro": 0.3 is 300000).  The    *)
(* ease factor, which the code rounds to two decimals every time it        *)
(* stores it, is kept in hundredths (2.5 is 250).  Counts, day counts and  *)
(* interval_days are plain integers.  Timestamps are integers in ticks,    *)
(* TicksPerDay ticks to the day: a tick is an hour, tick 0 is              *)
(* 2023-01-01T00:00 (a Sunday), and local time is taken to be UTC.  A      *)
(* result that can be NaN is a sequence: <<v>> for the number v and <<>>   *)
(* for NaN.                                                                *)
(***************************************************************************)
EXTENDS Integers, Sequences, FiniteSets, TLC

VARIABLES
    word_metrics,   \* store: sequence of WordLearningMetrics records
    learning_data,  \* store: sequence of LearningDataPoint records
    now,            \* the wall clock, in ticks
    hist,           \* per word: qualities passed to updateWordSchedule so far
    ret,            \* the last operation called, its arguments and its result
    progress,       \* store: the other fields of the state (a record)
    backend         \* the server's data and the requests in flight to it

vars == <<word_metrics, learning_data, now, hist, ret, progress, backend>>

----------------------------------------------------------------------------
(* Bounds of the model *)

MaxReviews == 3        \* updateWordSchedule calls per word (SpecSchedule)
MaxSteps == 3          \* store operations in a run of SpecReview
MaxInteractions == 2   \* recordWordInteraction calls in a run of Spec
MaxNow == 2            \* last tick of the clock

\* one day (1000 * 60 * 60 * 24 ms) in ticks of the clock
TicksPerDay == 24

Words == {"w1", "w2"}
Qualities == 0..5
ResponseTimes == {800}

----------------------------------------------------------------------------
(* Arithmetic *)

Micro == 1000000

Max(a, b) == IF a >= b THEN a ELSE b
Min(a, b) == IF a <= b THEN a ELSE b
Abs(a) == IF a >= 0 THEN a ELSE -a

\* Math.ceil(a / b) for a >= 0, b > 0
CeilDiv(a, b) == (a + b - 1) \div b

\* Math.round(a / b) for a >= 0, b > 0: halves round up
RoundDiv(a, b) == (2 * a + b) \div (2 * b)

\* x * y of two non-negative micro numbers, in micro (floor), computed in
\* pieces that stay inside 32 bits
Mul(x, y) ==
    LET x1 == x \div 1000
        x0 == x % 1000
        y1 == y \div 1000
        y0 == y % 1000
    IN  x1 * y1 + (x1 * y0 + x0 * y1 + ((x0 * y0) \div 1000)) \div 1000

\* e^-1 in micro
ExpMinusOne == 367879

\* e^(-f) for 0 <= f < 1 (micro): the Taylor series to the 10th term, by Horner
RECURSIVE Horner(_, _)
Horner(f, k) ==
    IF k > 10 THEN Micro
    ELSE Micro - Mul(f \div k, Horner(f, k + 1))

RECURSIVE ExpMinusN(_)
ExpMinusN(n) ==
    IF n = 0 THEN Micro
    ELSE IF n > 14 THEN 0
    ELSE Mul(ExpMinusOne, ExpMinusN(n - 1))

\* Math.exp(-x) for x >= 0 (micro)
ExpNeg(x) == Mul(ExpMinusN(x \div Micro), Horner(x % Micro, 1))

\* 10^k
RECURSIVE Exp10(_)
Exp10(k) == IF k = 0 THEN 1 ELSE 10 * Exp10(k - 1)

RECURSIVE SumSeq(_)
SumSeq(s) == IF s = <<>> THEN 0 ELSE Head(s) + SumSeq(Tail(s))

\* state.word_metrics.find(m => m.word_id === wordId): a sequence holding the
\* first match, or the empty sequence
FindMetrics(metrics, wordId) ==
    LET hits == SelectSeq(metrics, LAMBDA m : m.word_id = wordId)
    IN  IF hits = <<>> THEN <<>> ELSE <<Head(hits)>>

----------------------------------------------------------------------------
(* Engine constants, forgettingCurveEngine.ts:86-89 *)

defaultDecayRate == 100000
targetRetention == 850000
minInterval == 1
maxInterval == 365

----------------------------------------------------------------------------
(* generateSpacedRepetitionSchedule *)

\* addDays(date, days)
addDays(date, days) == date + days * TicksPerDay

\* 0.1 - (5 - q) * (0.08 + (5 - q) * 0.02), in hundredths
EaseDelta(q) == 10 - (5 - q) * (8 + (5 - q) * 2)

\* variant: the second repetition is not special
SuccessIntervalNoSix(repetitionNumber, interval, easeFactor) ==
    RoundDiv(interval * easeFactor, 100)

\* variant: Math.floor in place of Math.round
SuccessIntervalFloor(repetitionNumber, interval, easeFactor) ==
    IF repetitionNumber = 1 THEN 6
    ELSE (interval * easeFactor) \div 100

\* variant: the interval is divided by the ease factor
SuccessIntervalDivided(repetitionNumber, interval, easeFactor) ==
    IF repetitionNumber = 1 THEN 6
    ELSE RoundDiv(interval * 100, easeFactor)

\* the interval of a successful recall
SuccessInterval(repetitionNumber, interval, easeFactor) ==
    IF repetitionNumber = 1 THEN 6
    ELSE IF repetitionNumber = 2 THEN RoundDiv(interval * easeFactor, 100)
    ELSE RoundDiv(interval * easeFactor, 100)

\* easeFactor = Math.max(1.3, easeFactor)
ClampEase(easeFactor) == Max(130, easeFactor)

\* variant: no upper clamp
ClampIntervalNoMax(interval) == Max(minInterval, interval)

\* interval = Math.max(minInterval, Math.min(maxInterval, interval))
ClampInterval(interval) == Max(minInterval, Min(maxInterval, interval))

\* variant: a failed recall keeps the counter
FailedRepetitionKept(repetitionNumber) == repetitionNumber

\* the repetition counter after a failed recall (repetitionNumber = 0), before
\* the return adds one
FailedRepetition(repetitionNumber) == 0

\* the schedule of the first review (no spaced_repetition_data)
FirstSchedule(wordMetrics, lastReviewDate, lastQuality) ==
    [word_id |-> wordMetrics.word_id,
     next_review_date |-> addDays(lastReviewDate, 1),
     interval_days |-> 1,
     ease_factor |-> 250,
     repetition_number |-> 1,
     last_quality |-> lastQuality]

generateSpacedRepetitionSchedule(wordMetrics, lastReviewDate, lastQuality) ==
    IF wordMetrics.spaced_repetition_data = <<>>
    THEN FirstSchedule(wordMetrics, lastReviewDate, lastQuality)
    ELSE
        LET spacedRepData == wordMetrics.spaced_repetition_data[1]
            success == lastQuality >= 3
            easeFactor ==
                ClampEase(IF success
                          THEN spacedRepData.ease_factor + EaseDelta(lastQuality)
                          ELSE spacedRepData.ease_factor)
            interval ==
                ClampInterval(IF success
                              THEN SuccessInterval(spacedRepData.repetition_number,
                                                   spacedRepData.next_interval,
                                                   spacedRepData.ease_factor)
                              ELSE 1)
            repetitionNumber ==
                IF success THEN spacedRepData.repetition_number
                ELSE FailedRepetition(spacedRepData.repetition_number)
        IN  [word_id |-> wordMetrics.word_id,
             next_review_date |-> addDays(lastReviewDate, interval),
             interval_days |-> interval,
             ease_factor |-> easeFactor,
             repetition_number |-> repetitionNumber + 1,
             last_quality |-> lastQuality]

----------------------------------------------------------------------------
(* calculateForgettingCurve *)

\* getDaysBetween(start, end): Math.ceil(Math.abs(end - start) / one day)
getDaysBetween(start, end) == CeilDiv(Abs(end - start), TicksPerDay)

\* getDaysSince(timestamp): the days between the timestamp and new Date()
getDaysSince(timestamp) == getDaysBetween(timestamp, now)

\* Array.prototype.sort by timestamp ascending (stable): insertion of x after
\* every element that is not later than it
RECURSIVE InsertByTimestamp(_, _)
InsertByTimestamp(sorted, x) ==
    IF sorted = <<>> THEN <<x>>
    ELSE IF Head(sorted).timestamp <= x.timestamp
         THEN <<Head(sorted)>> \o InsertByTimestamp(Tail(sorted), x)
         ELSE <<x>> \o sorted

RECURSIVE SortByTimestamp(_)
SortByTimestamp(s) ==
    IF s = <<>> THEN <<>>
    ELSE InsertByTimestamp(SortByTimestamp(SubSeq(s, 1, Len(s) - 1)), s[Len(s)])

\* variant: the history is not filtered by word
ReviewsOfAnyWord(wordId, reviewHistory) == SortByTimestamp(reviewHistory)

\* reviewHistory.filter(dp => dp.metadata?.word_id === word_id).sort(by timestamp)
ReviewsOf(wordId, reviewHistory) ==
    SortByTimestamp(SelectSeq(reviewHistory, LAMBDA dp : dp.word_id = wordId))

AccuracyReviews(reviews) ==
    SelectSeq(reviews, LAMBDA r : r.metric_type = "accuracy_rate")

calculateInitialStrength(reviews) ==
    IF reviews[1].metric_type = "accuracy_rate"
    THEN Max(100000, Min(900000, reviews[1].value))
    ELSE 300000

\* Math.max(0.01, Math.min(0.5, x))
ClampDecay(x) == Max(10000, Min(500000, x))

calculateDecayRate(reviews) ==
    IF Len(reviews) < 3 THEN defaultDecayRate
    ELSE
        LET accuracyReviews == AccuracyReviews(reviews)
        IN  IF Len(accuracyReviews) < 2 THEN defaultDecayRate
            ELSE
                LET first == accuracyReviews[1]
                    last == accuracyReviews[Len(accuracyReviews)]
                    timeSpan == getDaysBetween(first.timestamp, last.timestamp)
                IN  IF timeSpan = 0 THEN defaultDecayRate
                    ELSE \* baseDecayRate - performanceChange * 0.1
                         ClampDecay(defaultDecayRate
                                    - ((last.value - first.value) \div (10 * timeSpan)))

\* the variance of the accuracy samples (population variance)
Variance(values) ==
    LET n == Len(values)
        mean == SumSeq(values) \div n
        squares == [i \in 1..n |-> Mul(Abs(values[i] - mean), Abs(values[i] - mean))]
    IN  SumSeq(squares) \div n

calculateConsistencyBonus(reviews) ==
    LET accuracyReviews == AccuracyReviews(reviews)
        values == [i \in 1..Len(accuracyReviews) |-> accuracyReviews[i].value]
    IN  IF Len(values) < 3 THEN 0
        ELSE Max(0, 200000 - Variance(values))

\* Math.max(0.1, baseStability + consistencyBonus)
FloorStability(x) == Max(100000, x)

calculateStabilityFactor(wordMetrics, reviews) ==
    LET accuracy8 == \* accuracy * 0.8
            IF wordMetrics.encounter_count > 0
            THEN (wordMetrics.correct_count * 800000) \div wordMetrics.encounter_count
            ELSE 0
        baseStability == Min(900000, accuracy8)
    IN  FloorStability(baseStability + calculateConsistencyBonus(reviews))

\* Math.max(0.05, lastPerformance * timeDecay)
FloorRetrieval(x) == Max(50000, x)

calculateCurrentRetrievalStrength(wordMetrics, reviews, decayRate) ==
    IF reviews = <<>> THEN 300000
    ELSE
        LET lastReview == reviews[Len(reviews)]
            daysSinceLastReview == getDaysSince(lastReview.timestamp)
            lastPerformance ==
                IF lastReview.metric_type = "accuracy_rate" THEN lastReview.value
                ELSE 500000
            timeDecay == ExpNeg(decayRate * daysSinceLastReview)
        IN  FloorRetrieval(Mul(lastPerformance, timeDecay))

\* Math.round(Math.log(targetRetention / adjusted) / -decayRate), for
\* adjusted > targetRetention: the least n >= 0 with
\* adjusted * e^(-decayRate * (n + 1/2)) < targetRetention
RECURSIVE RoundedLogDays(_, _, _)
RoundedLogDays(adjusted, decayRate, n) ==
    IF n >= maxInterval THEN n
    ELSE IF Mul(adjusted, ExpNeg(decayRate * n + decayRate \div 2)) < targetRetention
         THEN n
         ELSE RoundedLogDays(adjusted, decayRate, n + 1)

calculateOptimalInterval(retrievalStrength, stabilityFactor, decayRate) ==
    LET adjustedRetention == Max(100000, Mul(retrievalStrength, stabilityFactor))
    IN  IF adjustedRetention <= targetRetention THEN minInterval
        ELSE Max(minInterval,
                 Min(maxInterval, RoundedLogDays(adjustedRetention, decayRate, 0)))

calculateModelConfidence(reviews) ==
    LET dataPoints == Len(reviews)
        baseConfidence == Min(900000, (dataPoints * Micro) \div 20)
        recentReviews ==
            Len(SelectSeq(reviews, LAMBDA r : getDaysSince(r.timestamp) < 30))
        recencyBonus == Min(100000, (recentReviews * Micro) \div 10)
    IN  Max(100000, baseConfidence + recencyBonus)

\* the model of a word without review history
DefaultModel(wordId) ==
    [word_id |-> wordId,
     initial_strength |-> 300000,
     decay_rate |-> defaultDecayRate,
     stability_factor |-> 500000,
     retrieval_strength |-> 300000,
     optimal_interval |-> 1,
     confidence_level |-> 200000]

\* reviews.length === 0
NoReviews(reviews) == Len(reviews) = 0

calculateForgettingCurve(wordMetrics, reviewHistory) ==
    LET reviews == ReviewsOf(wordMetrics.word_id, reviewHistory)
    IN  IF NoReviews(reviews) THEN DefaultModel(wordMetrics.word_id)
        ELSE
            LET decayRate == calculateDecayRate(reviews)
                stabilityFactor == calculateStabilityFactor(wordMetrics, reviews)
                retrievalStrength ==
                    calculateCurrentRetrievalStrength(wordMetrics, reviews, decayRate)
            IN  [word_id |-> wordMetrics.word_id,
                 initial_strength |-> calculateInitialStrength(reviews),
                 decay_rate |-> decayRate,
                 stability_factor |-> stabilityFactor,
                 retrieval_strength |-> retrievalStrength,
                 optimal_interval |->
                     calculateOptimalInterval(retrievalStrength, stabilityFactor,
                                              decayRate),
                 confidence_level |-> calculateModelConfidence(reviews)]

----------------------------------------------------------------------------
(* predictReviewSuccess *)

\* variant: capped at 1 instead of 0.95
CapProbabilityAtOne(x) == Min(Micro, x)

\* Math.min(0.95, currentRetention + stabilityBonus)
CapProbability(x) == Min(950000, x)

\* successProbability before the result is rounded
SuccessProbability(model, daysSinceLastReview) ==
    LET timeDecay == ExpNeg(model.decay_rate * daysSinceLastReview)
        currentRetention == Mul(model.retrieval_strength, timeDecay)
        stabilityBonus == model.stability_factor \div 5
    IN  CapProbability(currentRetention + stabilityBonus)

\* Math.round(x * 10000) / 10000
Round4(x) == ((x + 50) \div 100) * 100

\* days, in micro
calculateRecommendedDelay(model, successProbability, daysSinceLastReview) ==
    IF successProbability > 900000
    THEN Min(maxInterval * Micro, (model.optimal_interval * 3 * Micro) \div 2)
    ELSE IF successProbability < 700000 THEN 0
    ELSE Max(0, (model.optimal_interval - daysSinceLastReview) * Micro)

\* variant: the due rule is tried before the urgent rule
determinePriorityDueFirst(successProbability, daysSinceLastReview, optimalInterval) ==
    IF daysSinceLastReview >= optimalInterval THEN "due"
    ELSE IF successProbability < 500000 THEN "urgent"
    ELSE IF 10 * daysSinceLastReview >= 8 * optimalInterval THEN "optional"
    ELSE "too_early"

determinePriority(successProbability, daysSinceLastReview, optimalInterval) ==
    IF successProbability < 500000 THEN "urgent"
    ELSE IF daysSinceLastReview >= optimalInterval THEN "due"
    ELSE IF 10 * daysSinceLastReview >= 8 * optimalInterval THEN "optional"
    ELSE "too_early"

calculateDifficultyAdjustment(successProbability) ==
    IF successProbability > 900000 THEN 300000
    ELSE IF successProbability < 600000 THEN -300000
    ELSE 0

\* the reasoning lines: the percentage, the days, and the two remarks
generatePredictionReasoning(successProbability, daysSinceLastReview, model) ==
    <<<<"predicted success probability", RoundDiv(successProbability, 10000)>>,
      <<"days since last review", daysSinceLastReview>>,
      IF model.confidence_level > 700000
      THEN <<"High confidence prediction based on review history">>
      ELSE <<"Moderate confidence - limited review history">>>>
    \o (IF model.stability_factor > 800000
        THEN <<<<"Strong memory stability detected">>>>
        ELSE IF model.stability_factor < 400000
             THEN <<<<"Memory appears unstable - frequent review needed">>>>
             ELSE <<>>)

predictReviewSuccess(model, daysSinceLastReview) ==
    LET successProbability == SuccessProbability(model, daysSinceLastReview)
    IN  [word_id |-> model.word_id,
         success_probability |-> Round4(successProbability),
         recommended_delay |->
             calculateRecommendedDelay(model, successProbability, daysSinceLastReview),
         difficulty_adjustment |-> calculateDifficultyAdjustment(successProbability),
         review_priority |->
             determinePriority(successProbability, daysSinceLastReview,
                               model.optimal_interval),
         reasoning |->
             generatePredictionReasoning(successProbability, daysSinceLastReview, model)]

----------------------------------------------------------------------------
(* getForgettingCurveInsights *)

NaN == <<>>

\* a / b of JavaScript for a sum a >= 0 of micro numbers and a count b: the
\* quotient in micro, and NaN for 0 / 0 (an empty sum over no items)
Average(a, b) == IF b = 0 THEN NaN ELSE <<a \div b>>

\* getDaysSince(wordId, reviewData): 999 without reviews, else the days since
\* the last review of the word in array order
getDaysSinceWord(wordId, reviewData) ==
    LET wordReviews == SelectSeq(reviewData, LAMBDA dp : dp.word_id = wordId)
    IN  IF Len(wordReviews) = 0 THEN 999
        ELSE getDaysBetween(wordReviews[Len(wordReviews)].timestamp, now)

\* Array.prototype.sort((a, b) => b.key - a.key) (stable) on records with a key
RECURSIVE InsertByKeyDesc(_, _)
InsertByKeyDesc(sorted, x) ==
    IF sorted = <<>> THEN <<x>>
    ELSE IF Head(sorted).key >= x.key
         THEN <<Head(sorted)>> \o InsertByKeyDesc(Tail(sorted), x)
         ELSE <<x>> \o sorted

RECURSIVE SortByKeyDesc(_)
SortByKeyDesc(s) ==
    IF s = <<>> THEN <<>>
    ELSE InsertByKeyDesc(SortByKeyDesc(SubSeq(s, 1, Len(s) - 1)), s[Len(s)])

\* models.sort((a, b) => b.decay_rate - a.decay_rate)
SortByDecay(models) ==
    LET keyed == [i \in 1..Len(models) |->
                     [key |-> models[i].decay_rate, model |-> models[i]]]
        sorted == SortByKeyDesc(keyed)
    IN  [i \in 1..Len(sorted) |-> sorted[i].model]

\* models.sort by retrieval_strength * stability_factor, descending
SortByStrength(models) ==
    LET keyed == [i \in 1..Len(models) |->
                     [key |-> Mul(models[i].retrieval_strength,
                                  models[i].stability_factor),
                      model |-> models[i]]]
        sorted == SortByKeyDesc(keyed)
    IN  [i \in 1..Len(sorted) |-> sorted[i].model]

\* .slice(0, 10).map(model => profile)
Profiles(allWordMetrics, models, efficiency) ==
    LET top == SubSeq(models, 1, Min(10, Len(models)))
    IN  [i \in 1..Len(top) |->
            LET metrics == FindMetrics(allWordMetrics, top[i].word_id)[1]
            IN  [word_id |-> top[i].word_id,
                 word_text |-> metrics.word_id,
                 forgetting_rate |-> top[i].decay_rate,
                 memory_strength |-> top[i].retrieval_strength,
                 review_efficiency |-> efficiency,
                 last_seen |-> metrics.last_seen,
                 total_reviews |-> metrics.encounter_count]]

calculateMemoryStabilityTrend(models) ==
    LET n == Len(models)
        avgStability ==
            Average(SumSeq([i \in 1..n |-> models[i].stability_factor]), n)
        avgRetrieval ==
            Average(SumSeq([i \in 1..n |-> models[i].retrieval_strength]), n)
    IN  IF avgStability = NaN \/ avgRetrieval = NaN
        THEN "stable"   \* every comparison with NaN is false
        ELSE LET overallStrength == (avgStability[1] + avgRetrieval[1]) \div 2
             IN  IF overallStrength > 700000 THEN "improving"
                 ELSE IF overallStrength < 400000 THEN "declining"
                 ELSE "stable"

\* Math.round(averageRetention * 10000) / 100: a percentage, in micro
RetentionPercent(averageRetention) ==
    IF averageRetention = NaN THEN NaN
    ELSE <<RoundDiv(averageRetention[1], 100) * 10000>>

getForgettingCurveInsights(allWordMetrics, allReviewData) ==
    LET n == Len(allWordMetrics)
        models == [i \in 1..n |->
                      calculateForgettingCurve(allWordMetrics[i], allReviewData)]
        due == {i \in 1..n :
                   getDaysSinceWord(models[i].word_id, allReviewData)
                       >= models[i].optimal_interval}
        overdue == {i \in 1..n :
                       2 * getDaysSinceWord(models[i].word_id, allReviewData)
                           > 3 * models[i].optimal_interval}
        averageRetention ==
            Average(SumSeq([i \in 1..n |-> models[i].retrieval_strength]), n)
        byDecay == SortByDecay(models)
        byStrength == SortByStrength(byDecay)
    IN  [total_words |-> n,
         words_due |-> Cardinality(due),
         words_overdue |-> Cardinality(overdue),
         optimal_daily_reviews |-> RoundDiv(n, 30),
         average_retention |-> RetentionPercent(averageRetention),
         memory_stability_trend |-> calculateMemoryStabilityTrend(models),
         most_forgettable_words |-> Profiles(allWordMetrics, byDecay, 500000),
         strongest_memories |-> Profiles(allWordMetrics, byStrength, 800000)]

----------------------------------------------------------------------------
(* The store *)

POINTS_PER_LEVEL == 100
MAX_STUDY_SESSIONS == 1000
MAX_LEARNING_DATA_POINTS == 10000

defaultPersonalizationSettings ==
    [preferred_difficulty |-> "beginner",
     preferred_session_length |-> 15,
     daily_study_goal |-> 30,
     reminder_enabled |-> FALSE,
     adaptive_features_enabled |-> TRUE,
     theme_preferences |-> [color_scheme |-> "auto",
                            font_size |-> "medium",
                            animations_enabled |-> TRUE,
                            sounds_enabled |-> TRUE]]

\* defaultUserProgress; the empty string is <<>> and a date string <<day>>.
\* The optional learning_style is not a key of it.
defaultUserProgress ==
    [user_id |-> "default_user",
     learned_words |-> <<>>,
     current_level |-> 1,
     experience_points |-> 0,
     streak_days |-> 0,
     last_study_date |-> <<>>,
     study_sessions |-> <<>>,
     word_metrics |-> <<>>,
     category_analytics |-> <<>>,
     learning_data |-> <<>>,
     spaced_repetition |-> <<>>,
     achievements |-> <<>>,
     personalization |-> defaultPersonalizationSettings,
     syncStatus |-> "idle",
     lastSyncTime |-> <<>>]

\* the keys of the state kept in the variable progress: all but word_metrics
\* and learning_data, which have variables of their own
ProgressKeys ==
    (DOMAIN defaultUserProgress \cup {"learning_style"})
        \ {"word_metrics", "learning_data"}

\* create(...)({...defaultUserProgress, actions}): the state of the store at
\* creation; learning_style is undefined, <<>>
InitialProgress ==
    [k \in ProgressKeys |->
        IF k \in DOMAIN defaultUserProgress THEN defaultUserProgress[k] ELSE <<>>]

\* set(partial) of the store: the keys of partial replace those of the state,
\* the other keys stay
Merged(state, partial) ==
    [k \in DOMAIN state |-> IF k \in DOMAIN partial THEN partial[k] ELSE state[k]]

\* the backend before any request: the server has no user_progress row and
\* no study_sessions row of the user, no syncWithBackend is running and no
\* request is on its way
InitialBackend ==
    [server |-> [row |-> <<>>, sessions |-> <<>>],
     sync |-> <<>>,
     requests |-> <<>>]

\* variant: slice(0, n), which keeps the oldest n
SliceFirst(s, n) ==
    IF Len(s) <= n THEN s ELSE SubSeq(s, 1, n)

\* Array.prototype.slice(-n)
SliceLast(s, n) ==
    IF Len(s) <= n THEN s ELSE SubSeq(s, Len(s) - n + 1, Len(s))

\* the log after recordLearningData(metricType, value, metadata); metadata is
\* the word_id it carries, "" when it carries none
recordLearningData(data, metricType, value, wordId) ==
    SliceLast(Append(data, [timestamp |-> now,
                            metric_type |-> metricType,
                            value |-> value,
                            word_id |-> wordId]),
              MAX_LEARNING_DATA_POINTS)

\* variant: every interaction adds an entry of its own
InteractedMetricsAppended(metrics, wordId, correct, responseTime) ==
    Append(metrics,
           [word_id |-> wordId,
            encounter_count |-> 1,
            correct_count |-> IF correct THEN 1 ELSE 0,
            incorrect_count |-> IF correct THEN 0 ELSE 1,
            avg_response_time |-> responseTime,
            first_seen |-> now,
            last_seen |-> now,
            confidence_score |-> IF correct THEN Micro ELSE 0,
            retention_estimate |-> Micro,
            next_review_date |-> now + TicksPerDay,
            spaced_repetition_data |-> <<>>])

\* word_metrics after recordWordInteraction(wordId, correct, responseTime)
InteractedMetrics(metrics, wordId, correct, responseTime) ==
    LET existing == FindMetrics(metrics, wordId)
        c == IF correct THEN 1 ELSE 0
    IN  IF existing # <<>>
        THEN LET e == existing[1]
                 updatedMetrics ==
                     [e EXCEPT
                        !.encounter_count = e.encounter_count + 1,
                        !.correct_count = e.correct_count + c,
                        !.incorrect_count = e.incorrect_count + (1 - c),
                        !.avg_response_time =
                            (e.avg_response_time * e.encounter_count + responseTime)
                                \div (e.encounter_count + 1),
                        !.last_seen = now,
                        !.confidence_score =
                            Min(Micro, ((e.correct_count + c) * Micro)
                                           \div (e.encounter_count + 1))]
             IN  [i \in 1..Len(metrics) |->
                     IF metrics[i].word_id = wordId THEN updatedMetrics
                     ELSE metrics[i]]
        ELSE Append(metrics,
                    [word_id |-> wordId,
                     encounter_count |-> 1,
                     correct_count |-> c,
                     incorrect_count |-> 1 - c,
                     avg_response_time |-> responseTime,
                     first_seen |-> now,
                     last_seen |-> now,
                     confidence_score |-> c * Micro,
                     retention_estimate |-> Micro,
                     next_review_date |-> now + TicksPerDay,
                     spaced_repetition_data |-> <<>>])

\* the log after the two recordLearningData calls of recordWordInteraction
InteractedData(data, wordId, correct, responseTime) ==
    recordLearningData(
        recordLearningData(data, "accuracy_rate",
                           IF correct THEN Micro ELSE 0, wordId),
        "response_time", responseTime * Micro, wordId)

\* variant: the schedule is not written back, only last_seen is
ScheduledMetricsDropped(metrics, wordId, schedule) ==
    [i \in 1..Len(metrics) |->
        IF metrics[i].word_id = wordId
        THEN [metrics[i] EXCEPT !.last_seen = now]
        ELSE metrics[i]]

\* word_metrics after updateWordMetrics(wordId, {spaced_repetition_data, last_seen})
ScheduledMetrics(metrics, wordId, schedule) ==
    [i \in 1..Len(metrics) |->
        IF metrics[i].word_id = wordId
        THEN [metrics[i] EXCEPT
                !.spaced_repetition_data =
                    <<[next_review_date |-> schedule.next_review_date,
                       ease_factor |-> schedule.ease_factor,
                       next_interval |-> schedule.interval_days,
                       repetition_number |-> schedule.repetition_number]>>,
                !.last_seen = now]
        ELSE metrics[i]]

NoCall == [op |-> "none"]

RecordWordInteraction(wordId, correct, responseTime) ==
    /\ word_metrics' = InteractedMetrics(word_metrics, wordId, correct, responseTime)
    /\ learning_data' = InteractedData(learning_data, wordId, correct, responseTime)
    /\ ret' = NoCall
    /\ UNCHANGED <<now, hist, progress, backend>>

\* the hook's updateWordSchedule: generateSchedule on the stored metrics with
\* lastReviewDate = last_seen, the write-back, then recordWordInteraction
UpdateWordSchedule(wordId, quality, responseTime) ==
    LET found == FindMetrics(word_metrics, wordId)
    IN  /\ found # <<>>
        /\ LET schedule ==
                   generateSpacedRepetitionSchedule(found[1], found[1].last_seen, quality)
               written == ScheduledMetrics(word_metrics, wordId, schedule)
           IN  /\ word_metrics' =
                      InteractedMetrics(written, wordId, quality >= 3, responseTime)
               /\ learning_data' =
                      InteractedData(learning_data, wordId, quality >= 3, responseTime)
               /\ hist' = [hist EXCEPT ![wordId] = Append(@, quality)]
               /\ ret' = [op |-> "updateWordSchedule",
                          word_id |-> wordId,
                          quality |-> quality,
                          prior |-> found[1].spaced_repetition_data,
                          at |-> now,
                          schedule |-> schedule]
        /\ UNCHANGED <<now, progress, backend>>

\* calculateLevel(xp)
calculateLevel(xp) == xp \div POINTS_PER_LEVEL + 1

\* getTodayDateString() and getYesterdayDateString(): the date strings, as
\* sequences holding the day number
getTodayDateString == <<now \div TicksPerDay>>
getYesterdayDateString == <<(now - TicksPerDay) \div TicksPerDay>>

\* the backend after apiCall(url, options) is issued, unless the store is
\* offline: the request is on its way to the server
Requested(request) ==
    IF progress.syncStatus # "offline"
    THEN [backend EXCEPT !.requests = Append(@, request)]
    ELSE backend

AddLearnedWord(wordId) ==
    /\ IF \A i \in 1..Len(progress.learned_words) : progress.learned_words[i] # wordId
       THEN /\ progress' = Merged(progress,
                                  [learned_words |-> Append(progress.learned_words, wordId)])
            /\ backend' = Requested([url |-> "/api/progress/words", method |-> "PATCH",
                                     wordId |-> wordId, action |-> "add"])
       ELSE UNCHANGED <<progress, backend>>
    /\ ret' = NoCall
    /\ UNCHANGED <<word_metrics, learning_data, now, hist>>

RemoveLearnedWord(wordId) ==
    /\ progress' = Merged(progress,
                          [learned_words |->
                              SelectSeq(progress.learned_words, LAMBDA id : id # wordId)])
    /\ backend' = Requested([url |-> "/api/progress/words", method |-> "PATCH",
                             wordId |-> wordId, action |-> "remove"])
    /\ ret' = NoCall
    /\ UNCHANGED <<word_metrics, learning_data, now, hist>>

AddExperiencePoints(points) ==
    /\ IF points <= 0 THEN UNCHANGED <<progress, backend>>
       ELSE LET newXP == progress.experience_points + points
            IN  /\ progress' = Merged(progress, [experience_points |-> newXP,
                                                 current_level |-> calculateLevel(newXP)])
                /\ backend' = Requested([url |-> "/api/progress/xp", method |-> "PATCH",
                                         points |-> points])
    /\ ret' = NoCall
    /\ UNCHANGED <<word_metrics, learning_data, now, hist>>

UpdateStreak ==
    /\ progress.last_study_date # getTodayDateString
    /\ progress' =
           Merged(progress,
                  [streak_days |-> IF progress.last_study_date = getYesterdayDateString
                                   THEN progress.streak_days + 1 ELSE 1,
                   last_study_date |-> getTodayDateString])
    /\ ret' = NoCall
    /\ UNCHANGED <<word_metrics, learning_data, now, hist, backend>>

\* addStudySession(sessionData); quiz_score is <<>> when undefined
AddStudySession(sessionData) ==
    LET session == [date |-> now,
                    duration_minutes |-> sessionData.duration_minutes,
                    words_practiced |-> sessionData.words_practiced,
                    quiz_score |-> sessionData.quiz_score]
        recorded == recordLearningData(learning_data, "session_duration",
                                       session.duration_minutes * Micro, "")
    IN  /\ progress' =
               Merged(progress,
                      [study_sessions |->
                          SliceLast(Append(progress.study_sessions, session),
                                    MAX_STUDY_SESSIONS)])
        /\ learning_data' =
               IF session.quiz_score # <<>>
               THEN recordLearningData(recorded, "accuracy_rate",
                                       (session.quiz_score[1] * Micro) \div 100, "")
               ELSE recorded
        /\ backend' = Requested([url |-> "/api/sessions", method |-> "POST",
                                 sessionData |-> sessionData])
        /\ ret' = NoCall
        /\ UNCHANGED <<word_metrics, now, hist>>

\* resetProgress(): set({...defaultUserProgress, syncStatus: get().syncStatus})
ResetProgress ==
    LET partial == [defaultUserProgress EXCEPT !.syncStatus = progress.syncStatus]
    IN  /\ progress' = Merged(progress, partial)
        /\ word_metrics' = partial.word_metrics
        /\ learning_data' = partial.learning_data
        /\ hist' = [w \in Words |-> <<>>]
        /\ ret' = [op |-> "resetProgress"]
        /\ UNCHANGED <<now, backend>>

SetSyncStatus(status) ==
    /\ progress' = Merged(progress, [syncStatus |-> status])
    /\ ret' = NoCall
    /\ UNCHANGED <<word_metrics, learning_data, now, hist, backend>>

\* the direct call recordLearningData(metricType, value)
RecordLearningData(metricType, value) ==
    /\ learning_data' = recordLearningData(learning_data, metricType, value, "")
    /\ ret' = [op |-> "recordLearningData", metric_type |-> metricType,
               value |-> value, at |-> now]
    /\ UNCHANGED <<word_metrics, now, hist, progress, backend>>

UpdateLearningStyle(style) ==
    /\ progress' = Merged(progress, [learning_style |-> <<style>>])
    /\ ret' = NoCall
    /\ UNCHANGED <<word_metrics, learning_data, now, hist, backend>>

UpdateSpacedRepetition(wordId, data) ==
    /\ progress' =
           Merged(progress,
                  [spaced_repetition |->
                      IF \E i \in 1..Len(progress.spaced_repetition) :
                             progress.spaced_repetition[i].word_id = wordId
                      THEN [i \in 1..Len(progress.spaced_repetition) |->
                               IF progress.spaced_repetition[i].word_id = wordId
                               THEN data ELSE progress.spaced_repetition[i]]
                      ELSE Append(progress.spaced_repetition, data)])
    /\ ret' = NoCall
    /\ UNCHANGED <<word_metrics, learning_data, now, hist, backend>>

\* updatePersonalization(settings): settings is a record of some of the keys
UpdatePersonalization(settings) ==
    /\ progress' = Merged(progress,
                          [personalization |-> Merged(progress.personalization, settings)])
    /\ ret' = NoCall
    /\ UNCHANGED <<word_metrics, learning_data, now, hist, backend>>

\* updateCategoryAnalytics(categoryId, analytics) with analytics carrying
\* words_learned only
UpdateCategoryAnalytics(categoryId, wordsLearned) ==
    /\ progress' =
           Merged(progress,
                  [category_analytics |->
                      IF \E i \in 1..Len(progress.category_analytics) :
                             progress.category_analytics[i].category_id = categoryId
                      THEN [i \in 1..Len(progress.category_analytics) |->
                               IF progress.category_analytics[i].category_id = categoryId
                               THEN [progress.category_analytics[i] EXCEPT
                                        !.words_learned = wordsLearned]
                               ELSE progress.category_analytics[i]]
                      ELSE Append(progress.category_analytics,
                                  [category_id |-> categoryId,
                                   total_words |-> 0,
                                   words_learned |-> wordsLearned,
                                   words_in_progress |-> 0,
                                   average_accuracy |-> 0,
                                   time_spent_minutes |-> 0,
                                   preferred_mode |-> "flashcard",
                                   last_activity |-> now])])
    /\ ret' = NoCall
    /\ UNCHANGED <<word_metrics, learning_data, now, hist, backend>>

Tick ==
    /\ now < MaxNow
    /\ now' = now + 1
    /\ UNCHANGED <<word_metrics, learning_data, hist, ret, progress, backend>>

----------------------------------------------------------------------------
(* Spec: the store from its initial state, the clock, and                    *)
(* calculateForgettingCurve and getForgettingCurveInsights called on the     *)
(* store's collections                                                       *)

MetricType == {"accuracy_rate", "response_time", "session_duration",
               "words_per_minute", "retention_rate", "motivation_score",
               "difficulty_preference"}

\* the metrics a caller may keep when it hands a log to the engine
MetricFilters == {MetricType, {"accuracy_rate"}}

Init ==
    /\ word_metrics = <<>>
    /\ learning_data = <<>>
    /\ now = 0
    /\ hist = [w \in Words |-> <<>>]
    /\ progress = InitialProgress
    /\ backend = InitialBackend
    /\ ret = NoCall

StoreInteraction ==
    \E w \in Words, correct \in BOOLEAN, rt \in ResponseTimes :
        /\ Len(learning_data) < 2 * MaxInteractions
        /\ RecordWordInteraction(w, correct, rt)

\* the part of the log a caller passes: the events of the words of W with a
\* metric of M.  W = Words, M = MetricType is the whole log (as
\* getForgettingCurveInsights passes it), W = {w} one word's reviews (as
\* getForgettingCurveModel passes them), W = {} the empty log
LogOf(W, M) ==
    SelectSeq(learning_data, LAMBDA dp : dp.word_id \in W /\ dp.metric_type \in M)

CalculateForgettingCurve ==
    \E i \in 1..Len(word_metrics), W \in SUBSET Words, M \in MetricFilters :
        /\ ret' = [op |-> "calculateForgettingCurve",
                   wordMetrics |-> word_metrics[i],
                   reviewHistory |-> LogOf(W, M),
                   at |-> now,
                   model |-> calculateForgettingCurve(word_metrics[i], LogOf(W, M))]
        /\ UNCHANGED <<word_metrics, learning_data, now, hist, progress, backend>>

GetForgettingCurveInsights ==
    /\ ret' = [op |-> "getForgettingCurveInsights",
               allWordMetrics |-> word_metrics,
               allReviewData |-> learning_data,
               at |-> now,
               insights |-> getForgettingCurveInsights(word_metrics, learning_data)]
    /\ UNCHANGED <<word_metrics, learning_data, now, hist, progress, backend>>

Next ==
    \/ StoreInteraction
    \/ Tick
    \/ CalculateForgettingCurve
    \/ GetForgettingCurveInsights

Spec == Init /\ [][Next]_vars

----------------------------------------------------------------------------
(* SpecPredict: predictReviewSuccess on the models calculateForgettingCurve  *)
(* produces from the store                                                   *)

PredictDays == {0, 1, 30}

PredictReviewSuccess ==
    \E i \in 1..Len(word_metrics), M \in MetricFilters, d \in PredictDays :
        LET model == calculateForgettingCurve(
                         word_metrics[i], LogOf({word_metrics[i].word_id}, M))
        IN  /\ ret' = [op |-> "predictReviewSuccess",
                       model |-> model,
                       daysSinceLastReview |-> d,
                       at |-> now,
                       prediction |-> predictReviewSuccess(model, d)]
            /\ UNCHANGED <<word_metrics, learning_data, now, hist, progress, backend>>

NextPredict ==
    \/ StoreInteraction
    \/ Tick
    \/ PredictReviewSuccess

SpecPredict == Init /\ [][NextPredict]_vars

----------------------------------------------------------------------------
(* SpecReview: recordWordInteraction and updateWordSchedule from the initial *)
(* store                                                                     *)

StoreReview ==
    \E w \in Words, q \in Qualities, rt \in ResponseTimes :
        /\ Len(learning_data) < 2 * MaxSteps
        /\ UpdateWordSchedule(w, q, rt)

FirstInteraction ==
    \E w \in Words, correct \in BOOLEAN, rt \in ResponseTimes :
        /\ Len(learning_data) < 2 * MaxSteps
        /\ RecordWordInteraction(w, correct, rt)

NextReview ==
    \/ FirstInteraction
    \/ StoreReview

SpecReview == Init /\ [][NextReview]_vars

----------------------------------------------------------------------------
(* SpecSchedule: generateSpacedRepetitionSchedule on any stored state *)

PriorIntervals == {1, 6, 100, 365}
PriorEases == {130, 250, 400}
PriorRepetitions == {1, 2, 3}

PriorStates ==
    {<<>>} \cup
    {<<[next_review_date |-> TicksPerDay,
        ease_factor |-> e,
        next_interval |-> i,
        repetition_number |-> r]>> :
        i \in PriorIntervals, e \in PriorEases, r \in PriorRepetitions}

InitSchedule ==
    /\ \E p \in PriorStates :
          word_metrics = <<[word_id |-> "w1",
                            encounter_count |-> 1,
                            correct_count |-> 1,
                            incorrect_count |-> 0,
                            avg_response_time |-> 800,
                            first_seen |-> 0,
                            last_seen |-> 0,
                            confidence_score |-> Micro,
                            retention_estimate |-> Micro,
                            next_review_date |-> TicksPerDay,
                            spaced_repetition_data |-> p]>>
    /\ learning_data = <<>>
    /\ now = 0
    /\ hist = [w \in Words |-> <<>>]
    /\ progress = InitialProgress
    /\ backend = InitialBackend
    /\ ret = NoCall

ReviewStep ==
    \E w \in Words, q \in Qualities, rt \in ResponseTimes :
        /\ Len(hist[w]) < MaxReviews
        /\ UpdateWordSchedule(w, q, rt)

NextSchedule == ReviewStep

SpecSchedule == InitSchedule /\ [][NextSchedule]_vars

----------------------------------------------------------------------------
(* SpecPriority: predictReviewSuccess on any model and any number of days *)

RetrievalInputs == {50000, 399960, 600000, 900000}
DecayInputs == {10000, 100000, 500000}
StabilityInputs == {100000, 500000, 1000000}
IntervalInputs == {1, 5, 10}
DaysInputs == {0, 1, 4, 5, 8, 9, 10}

ModelInputs ==
    {[word_id |-> "w1",
      initial_strength |-> 300000,
      decay_rate |-> dr,
      stability_factor |-> sf,
      retrieval_strength |-> rs,
      optimal_interval |-> oi,
      confidence_level |-> 200000] :
        dr \in DecayInputs, sf \in StabilityInputs,
        rs \in RetrievalInputs, oi \in IntervalInputs}

InitPriority ==
    /\ word_metrics = <<>>
    /\ learning_data = <<>>
    /\ now = 0
    /\ hist = [w \in Words |-> <<>>]
    /\ progress = InitialProgress
    /\ backend = InitialBackend
    /\ \E m \in ModelInputs, d \in DaysInputs :
          ret = [op |-> "input", model |-> m, daysSinceLastReview |-> d]

PredictInput ==
    /\ ret.op = "input"
    /\ ret' = [op |-> "predictReviewSuccess",
               model |-> ret.model,
               daysSinceLastReview |-> ret.daysSinceLastReview,
               at |-> now,
               prediction |-> predictReviewSuccess(ret.model, ret.daysSinceLastReview)]
    /\ UNCHANGED <<word_metrics, learning_data, now, hist, progress, backend>>

NextPriority == PredictInput

SpecPriority == InitPriority /\ [][NextPriority]_vars

----------------------------------------------------------------------------
(* TemporalPatternEngine (src/unnamed/part_005): helpers *)

minDataPoints == 50
confidenceThreshold == 700000

\* x * y of two micro numbers of either sign
SMul(x, y) ==
    IF (x >= 0) = (y >= 0) THEN Mul(Abs(x), Abs(y)) ELSE -Mul(Abs(x), Abs(y))

\* the digits of rem / b after the point, k of them, as an integer
RECURSIVE DivDigits(_, _, _)
DivDigits(rem, b, k) ==
    IF k = 0 THEN 0
    ELSE ((rem * 10) \div b) * Exp10(k - 1) + DivDigits((rem * 10) % b, b, k - 1)

\* a / b in micro (floor) for integers a >= 0, b > 0 of the same unit
Div(a, b) == (a \div b) * Micro + DivDigits(a % b, b, 6)

\* a / b in micro for a of either sign
SDiv(a, b) == IF a >= 0 THEN Div(a, b) ELSE -Div(-a, b)

\* new Date(timestamp).getHours()
getHours(timestamp) == timestamp % TicksPerDay

\* timestamp.split('T')[0]: the calendar day, as the number of the day
getDate(timestamp) == timestamp \div TicksPerDay

\* new Date(timestamp).getDay(): 0 is Sunday
getDay(timestamp) == (timestamp \div TicksPerDay) % 7

\* the elements of a set of integers in ascending order (the order in which
\* Object.keys and Object.entries list integer keys)
RECURSIVE Ascending(_)
Ascending(S) ==
    IF S = {} THEN <<>>
    ELSE LET m == CHOOSE x \in S : \A y \in S : x <= y
         IN  <<m>> \o Ascending(S \ {m})

\* the distinct elements of a sequence in order of first occurrence (the order
\* in which Object.keys and Object.entries list string keys)
RECURSIVE InsertionOrder(_)
InsertionOrder(s) ==
    IF s = <<>> THEN <<>>
    ELSE <<Head(s)>> \o InsertionOrder(SelectSeq(Tail(s), LAMBDA x : x # Head(s)))

\* groupByHour(data): the entries [key, points] of the record, by hour
groupByHour(data) ==
    LET hours == Ascending({getHours(data[i].timestamp) : i \in 1..Len(data)})
    IN  [j \in 1..Len(hours) |->
            [key |-> hours[j],
             points |-> SelectSeq(data, LAMBDA p : getHours(p.timestamp) = hours[j])]]

\* groupByDayOfWeek(data)
groupByDayOfWeek(data) ==
    LET days == Ascending({getDay(data[i].timestamp) : i \in 1..Len(data)})
    IN  [j \in 1..Len(days) |->
            [key |-> days[j],
             points |-> SelectSeq(data, LAMBDA p : getDay(p.timestamp) = days[j])]]

\* groupByDay(data)
groupByDay(data) ==
    LET days == InsertionOrder([i \in 1..Len(data) |-> getDate(data[i].timestamp)])
    IN  [j \in 1..Len(days) |->
            [key |-> days[j],
             points |-> SelectSeq(data, LAMBDA p : getDate(p.timestamp) = days[j])]]

\* the term a point adds to the sum of calculateAveragePerformance
PerformanceOf(point) ==
    IF point.metric_type = "accuracy_rate" THEN point.value
    ELSE IF point.metric_type = "response_time"
         THEN (Micro * 1000) \div (Max(point.value, Micro) \div 1000)
         ELSE point.value

calculateAveragePerformance(data) ==
    IF Len(data) = 0 THEN 0
    ELSE SumSeq([i \in 1..Len(data) |-> PerformanceOf(data[i])]) \div Len(data)

\* calculateVariance(values) of micro numbers, in micro
calculateVariance(values) ==
    IF Len(values) = 0 THEN 0
    ELSE LET n == Len(values)
             mean == SumSeq(values) \div n
         IN  SumSeq([i \in 1..n |-> SMul(values[i] - mean, values[i] - mean)]) \div n

\* calculateVariance(values) of whole numbers (counts), in micro:
\* (n * sum of squares - square of the sum) / n^2
calculateVarianceOfCounts(counts) ==
    IF Len(counts) = 0 THEN 0
    ELSE LET n == Len(counts)
             total == SumSeq(counts)
             squares == SumSeq([i \in 1..n |-> counts[i] * counts[i]])
         IN  Div(n * squares - total * total, n * n)

\* Math.min(0.9, variance * 2)
calculateRhythmConfidence(hourlyData) ==
    LET performances ==
            [j \in 1..Len(hourlyData) |->
                calculateAveragePerformance(hourlyData[j].points)]
    IN  Min(900000, calculateVariance(performances) * 2)

\* data[0]?.timestamp || new Date().toISOString(), folded with the earlier one
getEarliestTimestamp(data) ==
    IF data = <<>> THEN now
    ELSE CHOOSE t \in {data[i].timestamp : i \in 1..Len(data)} :
             \A i \in 1..Len(data) : t <= data[i].timestamp

getLatestTimestamp(data) ==
    IF data = <<>> THEN now
    ELSE CHOOSE t \in {data[i].timestamp : i \in 1..Len(data)} :
             \A i \in 1..Len(data) : t >= data[i].timestamp

\* getDaySpan(sessions): first to last session in array order
getDaySpan(sessions) ==
    IF Len(sessions) = 0 THEN 1
    ELSE Max(1, IF sessions[Len(sessions)].date >= sessions[1].date
                THEN CeilDiv(sessions[Len(sessions)].date - sessions[1].date,
                             TicksPerDay)
                ELSE -((sessions[1].date - sessions[Len(sessions)].date)
                           \div TicksPerDay))

getDaySpanFromData(data) ==
    IF Len(data) = 0 THEN 1
    ELSE Max(1, CeilDiv(getLatestTimestamp(data) - getEarliestTimestamp(data),
                        TicksPerDay))

calculateDailyFrequency(data) == Div(Len(data), getDaySpanFromData(data))

\* data.length / (daySpan / 7)
calculateWeeklyFrequency(data) == Div(Len(data) * 7, getDaySpanFromData(data))

----------------------------------------------------------------------------
(* TemporalPatternEngine: the five detectors and analyzeTemporalPatterns *)

\* the entries of an hourly or daily record mapped to their statistics, keyed
\* by average performance for sorting
PerformanceEntries(groups) ==
    [j \in 1..Len(groups) |->
        [key |-> calculateAveragePerformance(groups[j].points),
         unit |-> groups[j].key,
         dataPoints |-> Len(groups[j].points)]]

analyzeDailyRhythms(learningData) ==
    LET hourlyPerformance == groupByHour(learningData)
    IN  IF Len(hourlyPerformance) < 8 THEN <<>>
        ELSE
            LET sortedHours ==
                    SortByKeyDesc(SelectSeq(PerformanceEntries(hourlyPerformance),
                                            LAMBDA entry : entry.dataPoints >= 5))
            IN  IF Len(sortedHours) >= 3
                THEN LET topHours == SubSeq(sortedHours, 1, 3)
                         confidenceScore == calculateRhythmConfidence(hourlyPerformance)
                     IN  IF confidenceScore >= 600000
                         THEN <<[pattern_id |-> <<"daily_rhythm", now>>,
                                 pattern_type |-> "daily_rhythm",
                                 description |-> [j \in 1..3 |-> topHours[j].unit],
                                 confidence |-> confidenceScore,
                                 start_time |-> getEarliestTimestamp(learningData),
                                 end_time |-> getLatestTimestamp(learningData),
                                 frequency |-> calculateDailyFrequency(learningData),
                                 significance_score |-> confidenceScore,
                                 metadata |->
                                     [peak_hours |-> [j \in 1..3 |-> topHours[j].unit],
                                      performance_scores |->
                                          [j \in 1..3 |-> topHours[j].key]]]>>
                         ELSE <<>>
                ELSE <<>>

\* dayPerformance.reduce: the first entry no other entry beats
RECURSIVE BestOf(_, _)
BestOf(best, rest) ==
    IF rest = <<>> THEN best
    ELSE BestOf(IF Head(rest).key > best.key THEN Head(rest) ELSE best, Tail(rest))

RECURSIVE WorstOf(_, _)
WorstOf(worst, rest) ==
    IF rest = <<>> THEN worst
    ELSE WorstOf(IF Head(rest).key < worst.key THEN Head(rest) ELSE worst, Tail(rest))

analyzeWeeklyCycles(learningData) ==
    LET weeklyData == groupByDayOfWeek(learningData)
    IN  IF Len(weeklyData) >= 5
        THEN LET dayPerformance == PerformanceEntries(weeklyData)
                 variance ==
                     calculateVariance([j \in 1..Len(dayPerformance) |->
                                           dayPerformance[j].key])
             IN  IF variance > 100000
                 THEN <<[pattern_id |-> <<"weekly_cycle", now>>,
                         pattern_type |-> "weekly_cycle",
                         description |->
                             <<BestOf(Head(dayPerformance), Tail(dayPerformance)).unit,
                               WorstOf(Head(dayPerformance), Tail(dayPerformance)).unit>>,
                         confidence |-> Min(900000, variance * 2),
                         start_time |-> getEarliestTimestamp(learningData),
                         end_time |-> getLatestTimestamp(learningData),
                         frequency |-> calculateWeeklyFrequency(learningData),
                         significance_score |-> variance,
                         metadata |-> [day_performance |-> dayPerformance,
                                       performance_variance |-> variance]]>>
                 ELSE <<>>
        ELSE <<>>

\* variant: more than half of the sessions must be micro sessions
MicroShareHalf(micro, total) == 2 * micro > total

\* microSessions.length / studySessions.length > 0.4
MicroShare(micro, total) == 10 * micro > 4 * total

\* bingeSessions.length / studySessions.length > 0.15
BingeShare(binge, total) == 100 * binge > 15 * total

\* one pattern of analyzeSessionPatterns
SessionPattern(type, studySessions, selected) ==
    [pattern_id |-> <<type, now>>,
     pattern_type |-> type,
     description |-> RoundDiv(Len(selected) * 100, Len(studySessions)),
     confidence |-> 800000,
     start_time |-> studySessions[1].date,
     end_time |-> studySessions[Len(studySessions)].date,
     frequency |-> Div(Len(selected), getDaySpan(studySessions)),
     significance_score |-> Div(Len(selected), Len(studySessions)),
     metadata |->
         [session_count |-> Len(selected),
          avg_duration |->
              Div(SumSeq([i \in 1..Len(selected) |-> selected[i].duration_minutes]),
                  Len(selected))]]

analyzeSessionPatterns(studySessions) ==
    IF Len(studySessions) < 20 THEN <<>>
    ELSE
        LET microSessions ==
                SelectSeq(studySessions, LAMBDA s : s.duration_minutes <= 5)
            bingeSessions ==
                SelectSeq(studySessions, LAMBDA s : s.duration_minutes >= 30)
        IN  (IF MicroShare(Len(microSessions), Len(studySessions))
             THEN <<SessionPattern("micro_sessions", studySessions, microSessions)>>
             ELSE <<>>)
            \o (IF BingeShare(Len(bingeSessions), Len(studySessions))
                THEN <<SessionPattern("binge_learning", studySessions, bingeSessions)>>
                ELSE <<>>)

\* applyMovingAverage(values, windowSize)
applyMovingAverage(values, windowSize) ==
    [i \in 1..Len(values) |->
        LET start == Max(1, i - windowSize \div 2)
            end == Min(Len(values), i + windowSize \div 2)
        IN  SumSeq(SubSeq(values, start, end)) \div (end - start + 1)]

calculateAutoCorrelation(data, lag) ==
    IF lag >= Len(data) THEN 0
    ELSE
        LET n == Len(data) - lag
            mean == SumSeq(data) \div Len(data)
            numerator ==
                SumSeq([i \in 1..n |-> SMul(data[i] - mean, data[i + lag] - mean)])
            denominator ==
                SumSeq([i \in 1..Len(data) |-> SMul(data[i] - mean, data[i] - mean)])
        IN  IF denominator # 0 THEN SDiv(numerator, denominator) ELSE 0

\* the periods the loop of detectPerformanceCycles tries: 5, 7, ..., 29
CyclePeriods == [k \in 1..13 |-> 3 + 2 * k]

detectPerformanceCycles(smoothedData) ==
    LET tried == [k \in 1..Len(CyclePeriods) |->
                     [key |-> calculateAutoCorrelation(smoothedData, CyclePeriods[k]),
                      period |-> CyclePeriods[k]]]
        found == SelectSeq(tried, LAMBDA c : c.key > 500000)
        amplitude == calculateVariance(smoothedData)
        cycles == [k \in 1..Len(found) |->
                      [key |-> found[k].key,
                       period |-> found[k].period,
                       amplitude |-> amplitude,
                       confidence |-> found[k].key,
                       nextPeak |-> now + found[k].period * TicksPerDay]]
        sorted == SortByKeyDesc(cycles)
    IN  SubSeq(sorted, 1, Min(3, Len(sorted)))

analyzePerformanceWaves(learningData) ==
    LET accuracyData == SortByTimestamp(AccuracyReviews(learningData))
    IN  IF Len(accuracyData) < 30 THEN <<>>
        ELSE
            LET smoothedData ==
                    applyMovingAverage([i \in 1..Len(accuracyData) |->
                                           accuracyData[i].value], 7)
                cycles ==
                    SelectSeq(detectPerformanceCycles(smoothedData),
                              LAMBDA cycle : cycle.confidence > 600000)
            IN  [k \in 1..Len(cycles) |->
                    [pattern_id |-> <<"performance_wave", now, cycles[k].period>>,
                     pattern_type |-> "performance_wave",
                     description |-> cycles[k].period,
                     confidence |-> cycles[k].confidence,
                     start_time |-> accuracyData[1].timestamp,
                     end_time |-> accuracyData[Len(accuracyData)].timestamp,
                     frequency |-> Div(1, cycles[k].period),
                     significance_score |-> cycles[k].amplitude,
                     metadata |-> [period_days |-> cycles[k].period,
                                   amplitude |-> cycles[k].amplitude,
                                   next_peak_estimate |-> cycles[k].nextPeak]]]

analyzeConsistencyPatterns(learningData) ==
    LET dailyData == groupByDay(learningData)
        dailyEngagement == PerformanceEntries(dailyData)
        days == Len(dailyEngagement)
        engagementVariance ==
            calculateVarianceOfCounts([j \in 1..days |-> dailyEngagement[j].dataPoints])
        performanceVariance ==
            calculateVariance([j \in 1..days |-> dailyEngagement[j].key])
    IN  IF engagementVariance < 5 * Micro /\ days >= 14
        THEN <<[pattern_id |-> <<"consistency", now>>,
                pattern_type |-> "consistency_pattern",
                description |-> "Highly consistent daily learning engagement",
                confidence |-> 900000,
                start_time |-> getEarliestTimestamp(learningData),
                end_time |-> getLatestTimestamp(learningData),
                frequency |-> Div(days, getDaySpanFromData(learningData)),
                significance_score |-> Micro - engagementVariance \div 20,
                metadata |->
                    [engagement_variance |-> engagementVariance,
                     performance_variance |-> performanceVariance,
                     avg_daily_sessions |->
                         Div(SumSeq([j \in 1..days |-> dailyEngagement[j].dataPoints]),
                             days)]]>>
        ELSE <<>>

\* variant: one data point fewer is enough
TooFewDataPointsOffByOne(learningData) == Len(learningData) < minDataPoints - 1

\* learningData.length < this.minDataPoints
TooFewDataPoints(learningData) == Len(learningData) < minDataPoints

\* variant: every detected pattern is returned
ConfidentPatternsAll(patterns) == patterns

\* patterns.filter(pattern => pattern.confidence >= this.confidenceThreshold)
ConfidentPatterns(patterns) ==
    SelectSeq(patterns, LAMBDA pattern : pattern.confidence >= confidenceThreshold)

\* what the five detectors find, in the order they are run
DetectedPatterns(learningData, studySessions) ==
    analyzeDailyRhythms(learningData)
        \o analyzeWeeklyCycles(learningData)
        \o analyzeSessionPatterns(studySessions)
        \o analyzePerformanceWaves(learningData)
        \o analyzeConsistencyPatterns(learningData)

analyzeTemporalPatterns(learningData, studySessions) ==
    IF TooFewDataPoints(learningData) THEN <<>>
    ELSE ConfidentPatterns(DetectedPatterns(learningData, studySessions))

----------------------------------------------------------------------------
(* SpecPatterns: analyzeTemporalPatterns on event logs and session lists of  *)
(* given shapes                                                              *)

\* the first day of the generated logs: 2024-02-04, a Sunday
FirstDay == 399 * TicksPerDay

\* event number i (from 0) of a log of shape p: the events walk through
\* p.hours hours of the day from 08:00, then through p.days days; the value is
\* p.hi or 0, alternating by hour, by day, or in runs of four events
EventAt(p, i) ==
    LET hourIdx == i % p.hours
        dayIdx == (i \div p.hours) % p.days
        high == CASE p.by = "hour" -> hourIdx % 2 = 0
                  [] p.by = "day" -> dayIdx % 2 = 0
                  [] p.by = "run" -> (i \div 4) % 2 = 0
    IN  [timestamp |-> FirstDay + dayIdx * TicksPerDay + 8 + hourIdx,
         metric_type |-> p.metric,
         value |-> IF high THEN p.hi ELSE 0,
         word_id |-> ""]

ShapedLog(p) == [i \in 1..p.n |-> EventAt(p, i - 1)]

LogSizes == {0, minDataPoints - 1, minDataPoints, minDataPoints + 6}

LogShapes ==
    {[n |-> n, hours |-> h, days |-> d, metric |-> m, by |-> b, hi |-> v] :
        n \in LogSizes, h \in {1, 8}, d \in {7, 14},
        m \in {"accuracy_rate", "words_per_minute"},
        b \in {"hour", "day", "run"}, v \in {1000000, 1100000, 1200000}}

\* session number i (from 1) of a list of p.n sessions on consecutive days:
\* the first p.micro last 3 minutes, the next p.binge 45 minutes, the rest 15
SessionAt(p, i) ==
    [date |-> FirstDay + (i - 1) * TicksPerDay + 9,
     duration_minutes |-> IF i <= p.micro THEN 3
                          ELSE IF i <= p.micro + p.binge THEN 45 ELSE 15,
     words_practiced |-> 10]

ShapedSessions(p) == [i \in 1..p.n |-> SessionAt(p, i)]

SessionShapes ==
    {[n |-> n, micro |-> a, binge |-> b] :
        n \in {0, 10, 20, 25}, a \in {0, 5, 8, 9, 11, 20}, b \in {0, 3, 4}}

InitPatterns ==
    /\ word_metrics = <<>>
    /\ learning_data = <<>>
    /\ now = 0
    /\ hist = [w \in Words |-> <<>>]
    /\ progress = InitialProgress
    /\ backend = InitialBackend
    /\ \E p \in LogShapes, q \in SessionShapes :
          /\ q.micro + q.binge <= q.n
          /\ ret = [op |-> "input",
                    learningData |-> ShapedLog(p),
                    studySessions |-> ShapedSessions(q)]

AnalyzeTemporalPatterns ==
    /\ ret.op = "input"
    /\ ret' = [op |-> "analyzeTemporalPatterns",
               learningData |-> ret.learningData,
               studySessions |-> ret.studySessions,
               patterns |-> analyzeTemporalPatterns(ret.learningData,
                                                    ret.studySessions)]
    /\ UNCHANGED <<word_metrics, learning_data, now, hist, progress, backend>>

NextPatterns == AnalyzeTemporalPatterns

SpecPatterns == InitPatterns /\ [][NextPatterns]_vars

----------------------------------------------------------------------------
(* Time series (src/unnamed/part_006): aggregateDataByPeriod *)

\* the calendar: years from 2023, the year of tick 0
IsLeapYear(y) == y % 4 = 0 /\ (y % 100 # 0 \/ y % 400 = 0)
DaysInYear(y) == IF IsLeapYear(y) THEN 366 ELSE 365
DaysInMonth(y, m) ==
    IF m = 2 THEN (IF IsLeapYear(y) THEN 29 ELSE 28)
    ELSE IF m \in {4, 6, 9, 11} THEN 30 ELSE 31

\* the year of day number d counted from 1 January of year y, and the day of
\* that year (from 0)
RECURSIVE YearOf(_, _)
YearOf(d, y) ==
    IF d < DaysInYear(y) THEN [year |-> y, dayOfYear |-> d]
    ELSE YearOf(d - DaysInYear(y), y + 1)

\* the month (1-12) and day of the month (1-31) of day d (from 0) of month m
RECURSIVE MonthOf(_, _, _)
MonthOf(d, y, m) ==
    IF d < DaysInMonth(y, m) THEN [month |-> m, date |-> d + 1]
    ELSE MonthOf(d - DaysInMonth(y, m), y, m + 1)

\* new Date(timestamp): getFullYear(), getMonth() + 1, getDate(), getHours(),
\* getDay(), and the day of the year
DateOf(timestamp) ==
    LET yd == YearOf(timestamp \div TicksPerDay, 2023)
        md == MonthOf(yd.dayOfYear, yd.year, 1)
    IN  [year |-> yd.year, month |-> md.month, date |-> md.date,
         hours |-> timestamp % TicksPerDay,
         day |-> (timestamp \div TicksPerDay) % 7,
         dayOfYear |-> yd.dayOfYear]

\* String(n): the decimal digits of n >= 0
RECURSIVE Digits(_)
Digits(n) == IF n < 10 THEN <<n>> ELSE Digits(n \div 10) \o <<n % 10>>

\* String(n).padStart(2, '0')
PadStart2(n) == IF n < 10 THEN <<0, n>> ELSE Digits(n)

\* getWeekNumber(date): Math.ceil((pastDaysOfYear + firstDayOfYear.getDay() + 1) / 7),
\* pastDaysOfYear counting the time of day as a fraction
getWeekNumber(timestamp) ==
    LET d == DateOf(timestamp)
        firstDay == (timestamp \div TicksPerDay - d.dayOfYear) % 7
    IN  CeilDiv(d.dayOfYear * TicksPerDay + d.hours + (firstDay + 1) * TicksPerDay,
                7 * TicksPerDay)

\* getPeriodKey(timestamp, period): the digits of the key, in the order they
\* appear in it (the punctuation between them is the same in all keys of a
\* period)
getPeriodKey(timestamp, period) ==
    LET d == DateOf(timestamp)
    IN  CASE period = "hour" ->
                 Digits(d.year) \o PadStart2(d.month) \o PadStart2(d.date)
                     \o PadStart2(d.hours)
          [] period = "day" ->
                 Digits(d.year) \o PadStart2(d.month) \o PadStart2(d.date)
          [] period = "week" ->
                 LET startOfWeek == timestamp - d.day * TicksPerDay
                 IN  Digits(DateOf(startOfWeek).year)
                         \o PadStart2(getWeekNumber(startOfWeek))
          [] period = "month" -> Digits(d.year) \o PadStart2(d.month)

\* a.localeCompare(b) < 0 for two keys
RECURSIVE KeyBefore(_, _)
KeyBefore(a, b) ==
    IF b = <<>> THEN FALSE
    ELSE IF a = <<>> THEN TRUE
    ELSE IF Head(a) # Head(b) THEN Head(a) < Head(b)
    ELSE KeyBefore(Tail(a), Tail(b))

\* variant: the buckets are left in the order Object.entries lists them
SortByPeriodNone(aggregates) == aggregates

\* .sort((a, b) => a.period.localeCompare(b.period)) (stable)
RECURSIVE SortByPeriod(_)
SortByPeriod(aggregates) ==
    IF aggregates = <<>> THEN <<>>
    ELSE LET last == aggregates[Len(aggregates)]
             sorted == SortByPeriod(SubSeq(aggregates, 1, Len(aggregates) - 1))
             before == SelectSeq(sorted, LAMBDA a : ~KeyBefore(last.period, a.period))
             after == SelectSeq(sorted, LAMBDA a : KeyBefore(last.period, a.period))
         IN  before \o <<last>> \o after

\* the largest s in lo..hi with s * s <= x
RECURSIVE SqrtBetween(_, _, _)
SqrtBetween(x, lo, hi) ==
    IF lo >= hi THEN lo
    ELSE LET mid == (lo + hi + 1) \div 2
         IN  IF mid * mid <= x THEN SqrtBetween(x, mid, hi)
             ELSE SqrtBetween(x, lo, mid - 1)

\* Math.round(Math.sqrt(x) * 10000) / 10000 for a micro number x < 21
RoundedSqrt(x) ==
    LET s == SqrtBetween(x * 100, 0, 46340)
    IN  (IF x * 100 > s * s + s THEN s + 1 ELSE s) * 100

\* variant: the sample variance (n - 1 in the denominator)
SeriesVarianceSample(values, average) ==
    SumSeq([i \in 1..Len(values) |->
               SMul(values[i] - average, values[i] - average)])
        \div Max(1, Len(values) - 1)

\* values.reduce((acc, val) => acc + Math.pow(val - average, 2), 0) / values.length
SeriesVariance(values, average) ==
    SumSeq([i \in 1..Len(values) |->
               SMul(values[i] - average, values[i] - average)]) \div Len(values)

MinOf(values) ==
    CHOOSE v \in {values[i] : i \in 1..Len(values)} :
        \A i \in 1..Len(values) : v <= values[i]

MaxOf(values) ==
    CHOOSE v \in {values[i] : i \in 1..Len(values)} :
        \A i \in 1..Len(values) : v >= values[i]

aggregateDataByPeriod(dataPoints, metricType, period) ==
    IF Len(dataPoints) = 0 THEN <<>>
    ELSE
        LET filteredPoints ==
                SelectSeq(dataPoints, LAMBDA point : point.metric_type = metricType)
            keys == InsertionOrder([i \in 1..Len(filteredPoints) |->
                                       getPeriodKey(filteredPoints[i].timestamp, period)])
            valuesOf(periodKey) ==
                LET points == SelectSeq(filteredPoints,
                                        LAMBDA point :
                                            getPeriodKey(point.timestamp, period)
                                                = periodKey)
                IN  [i \in 1..Len(points) |-> points[i].value]
            aggregate(periodKey) ==
                LET values == valuesOf(periodKey)
                    sum == SumSeq(values)
                    average == sum \div Len(values)
                IN  [period |-> periodKey,
                     metric_type |-> metricType,
                     count |-> Len(values),
                     sum |-> sum,
                     average |-> RoundDiv(sum, Len(values) * 100) * 100,
                     min |-> MinOf(values),
                     max |-> MaxOf(values),
                     std_deviation |-> RoundedSqrt(SeriesVariance(values, average))]
        IN  IF Len(filteredPoints) = 0 THEN <<>>
            ELSE SortByPeriod([j \in 1..Len(keys) |-> aggregate(keys[j])])

----------------------------------------------------------------------------
(* SpecAggregate: aggregateDataByPeriod on short event logs *)

MaxSeries == 3     \* events in a log handed to aggregateDataByPeriod

AggregationPeriod == {"hour", "day", "week", "month"}

\* Sunday 2023-12-31 10:00, Monday 2024-01-01 10:00 and 11:00
SeriesTimes == {364 * TicksPerDay + 10, 365 * TicksPerDay + 10, 365 * TicksPerDay + 11}

SeriesEvents ==
    {[timestamp |-> t, metric_type |-> "session_duration", value |-> v * Micro,
      word_id |-> ""] : t \in SeriesTimes, v \in {2, 4, 6}}
    \cup {[timestamp |-> t, metric_type |-> "accuracy_rate", value |-> Micro,
           word_id |-> ""] : t \in SeriesTimes}

SeriesLogs == UNION {[1..k -> SeriesEvents] : k \in 0..MaxSeries}

InitAggregate ==
    /\ word_metrics = <<>>
    /\ learning_data = <<>>
    /\ now = 0
    /\ hist = [w \in Words |-> <<>>]
    /\ progress = InitialProgress
    /\ backend = InitialBackend
    /\ \E log \in SeriesLogs, period \in AggregationPeriod,
          kind \in {"session_duration", "response_time"} :
          ret = [op |-> "input", dataPoints |-> log, metricType |-> kind,
                 period |-> period]

AggregateDataByPeriod ==
    /\ ret.op = "input"
    /\ ret' = [op |-> "aggregateDataByPeriod",
               dataPoints |-> ret.dataPoints,
               metricType |-> ret.metricType,
               period |-> ret.period,
               aggregates |-> aggregateDataByPeriod(ret.dataPoints, ret.metricType,
                                                    ret.period)]
    /\ UNCHANGED <<word_metrics, learning_data, now, hist, progress, backend>>

NextAggregate == AggregateDataByPeriod

SpecAggregate == InitAggregate /\ [][NextAggregate]_vars

----------------------------------------------------------------------------
(* Time series (src/unnamed/part_006): calculateMetricCorrelations *)

\* groupDataByHour(dataPoints): the entries [key, average] of the record, in
\* insertion order of the hours; point.timestamp.substring(0, 13) names the
\* hour of the timestamp, which is the tick. The values correlated are whole
\* numbers and an hour holds 1, 2, 3 or 6 of them: an average is carried as
\* six times its value, a whole number, so that the coefficient, which does
\* not change when both series are scaled, is computed exactly.
groupDataByHour(dataPoints) ==
    LET hours == InsertionOrder([i \in 1..Len(dataPoints) |-> dataPoints[i].timestamp])
        valuesOf(hour) ==
            LET points == SelectSeq(dataPoints, LAMBDA point : point.timestamp = hour)
            IN  [i \in 1..Len(points) |-> points[i].value \div Micro]
    IN  [j \in 1..Len(hours) |->
            [key |-> hours[j],
             average |-> (6 * SumSeq(valuesOf(hours[j]))) \div Len(valuesOf(hours[j]))]]

\* hours[hour] for a record of groupDataByHour: a sequence holding the
\* average, empty when the record has no such key (undefined)
HourAverage(hours, hour) ==
    LET hits == SelectSeq(hours, LAMBDA h : h.key = hour)
    IN  IF hits = <<>> THEN <<>> ELSE <<hits[1].average>>

\* Object.keys(hours1).filter(hour => hours2[hour]): the hours of hours1 whose
\* value in hours2 is truthy, neither undefined nor 0
CommonHours(hours1, hours2) ==
    LET truthy(v) == v # <<>> /\ v[1] # 0
        common == SelectSeq(hours1, LAMBDA h : truthy(HourAverage(hours2, h.key)))
    IN  [i \in 1..Len(common) |-> common[i].key]

\* Math.round(pearsonCorrelation(x, y) * 10000) / 10000, in micro
RoundedPearsonCorrelation(x, y) ==
    IF Len(x) # Len(y) \/ Len(x) = 0 THEN 0
    ELSE
        LET n == Len(x)
            sumX == SumSeq(x)
            sumY == SumSeq(y)
            sumXY == SumSeq([i \in 1..n |-> x[i] * y[i]])
            sumX2 == SumSeq([i \in 1..n |-> x[i] * x[i]])
            sumY2 == SumSeq([i \in 1..n |-> y[i] * y[i]])
            numerator == n * sumXY - sumX * sumY
            squared == (n * sumX2 - sumX * sumX) * (n * sumY2 - sumY * sumY)
        IN  IF squared = 0 THEN 0
            ELSE
                \* (numerator / denominator)^2 in units of 10^-8, and the
                \* rounded square root of it in units of 10^-4
                LET square == numerator * numerator
                    ratio == (square \div squared) * Exp10(8)
                                 + DivDigits(square % squared, squared, 8)
                    s == SqrtBetween(ratio, 0, 10000)
                    magnitude == IF ratio > s * s + s THEN s + 1 ELSE s
                IN  (IF numerator < 0 THEN -magnitude ELSE magnitude) * 100

\* calculatePearsonCorrelation(data1, data2): a sequence holding the result,
\* empty for null
calculatePearsonCorrelation(data1, data2) ==
    IF Len(data1) < 5 \/ Len(data2) < 5 THEN <<>>
    ELSE
        LET hours1 == groupDataByHour(data1)
            hours2 == groupDataByHour(data2)
            commonHours == CommonHours(hours1, hours2)
            values1 == [i \in 1..Len(commonHours) |-> HourAverage(hours1, commonHours[i])[1]]
            values2 == [i \in 1..Len(commonHours) |-> HourAverage(hours2, commonHours[i])[1]]
        IN  IF Len(commonHours) < 3 THEN <<>>
            ELSE <<[correlation |-> RoundedPearsonCorrelation(values1, values2),
                    significance |->
                        Min(100, RoundDiv(100 * Len(commonHours), 30)) * 10000,
                    sampleSize |-> Len(commonHours)]>>

\* calculateMetricCorrelations(dataPoints), pair (i, j) then the pairs after it
RECURSIVE CorrelationsFrom(_, _, _, _)
CorrelationsFrom(dataPoints, metricTypes, i, j) ==
    IF i > Len(metricTypes) THEN <<>>
    ELSE IF j > Len(metricTypes)
    THEN CorrelationsFrom(dataPoints, metricTypes, i + 1, i + 2)
    ELSE
        LET metric1 == metricTypes[i]
            metric2 == metricTypes[j]
            data1 == SelectSeq(dataPoints, LAMBDA d : d.metric_type = metric1)
            data2 == SelectSeq(dataPoints, LAMBDA d : d.metric_type = metric2)
            correlation == calculatePearsonCorrelation(data1, data2)
        IN  (IF correlation = <<>> THEN <<>>
             ELSE <<[metric1 |-> metric1,
                     metric2 |-> metric2,
                     correlation |-> correlation[1].correlation,
                     significance |-> correlation[1].significance,
                     sample_size |-> correlation[1].sampleSize]>>)
            \o CorrelationsFrom(dataPoints, metricTypes, i, j + 1)

calculateMetricCorrelations(dataPoints) ==
    LET metricTypes ==
            InsertionOrder([i \in 1..Len(dataPoints) |-> dataPoints[i].metric_type])
    IN  CorrelationsFrom(dataPoints, metricTypes, 1, 2)

----------------------------------------------------------------------------
(* SpecCorrelate: calculateMetricCorrelations on logs of two metric kinds *)

MaxHours == 4      \* hours in which the two kinds are recorded

\* how the second kind's value y of an hour follows from the first kind's x
Relate(relation, x) ==
    CASE relation = "same" -> x
      [] relation = "less one" -> x - 1
      [] relation = "double" -> 2 * x
      [] relation = "mirror" -> 4 - x
      [] relation = "mirror one" -> 3 - x
      [] relation = "square" -> x * x

\* the events of hour k: perHour events of each kind, the first kind's values
\* spread around x when there are two of them
HourEvents(p, k) ==
    LET t == FirstDay + 8 + k
        x == p.xs[k]
        y == Relate(p.relation, x)
        event(kind, v) == [timestamp |-> t, metric_type |-> kind,
                           value |-> v * Micro, word_id |-> ""]
        first == IF p.perHour = 1 THEN <<event("response_time", x)>>
                 ELSE <<event("response_time", x - p.spread),
                        event("response_time", x + p.spread)>>
        second == [i \in 1..p.perHour |-> event("session_duration", y)]
    IN  IF p.secondFirst THEN second \o first ELSE first \o second

RECURSIVE CorrelatedLog(_, _)
CorrelatedLog(p, k) ==
    IF k = 0 THEN <<>> ELSE CorrelatedLog(p, k - 1) \o HourEvents(p, k)

InitCorrelate ==
    /\ word_metrics = <<>>
    /\ learning_data = <<>>
    /\ now = 0
    /\ hist = [w \in Words |-> <<>>]
    /\ progress = InitialProgress
    /\ backend = InitialBackend
    /\ \E n \in 2..MaxHours, xs \in [1..MaxHours -> 1..3], perHour \in {1, 2},
          spread \in {0, 1}, secondFirst \in BOOLEAN,
          relation \in {"same", "less one", "double", "mirror", "mirror one", "square"} :
          /\ \A k \in 1..MaxHours : k > n => xs[k] = 1
          /\ perHour = 1 => spread = 0
          /\ ret = [op |-> "input",
                    dataPoints |->
                        CorrelatedLog([xs |-> xs, perHour |-> perHour,
                                       spread |-> spread, secondFirst |-> secondFirst,
                                       relation |-> relation], n)]

CalculateMetricCorrelations ==
    /\ ret.op = "input"
    /\ ret' = [op |-> "calculateMetricCorrelations",
               dataPoints |-> ret.dataPoints,
               correlations |-> calculateMetricCorrelations(ret.dataPoints)]
    /\ UNCHANGED <<word_metrics, learning_data, now, hist, progress, backend>>

NextCorrelate == CalculateMetricCorrelations

SpecCorrelate == InitCorrelate /\ [][NextCorrelate]_vars

----------------------------------------------------------------------------
(* ForgettingCurveEngine.analyzeMemoryConsolidation, forgettingCurveEngine.ts *)

\* Math.min(0.3, sessionCount / 10) * 0.3
SessionTerm(sessionCount) == Mul(Min(300000, sessionCount * 100000), 300000)

calculateConsolidationScore(wordMetrics, recentSessions) ==
    LET accuracy == IF wordMetrics.encounter_count > 0
                    THEN Div(wordMetrics.correct_count, wordMetrics.encounter_count)
                    ELSE 0
        daysSinceLastSeen == getDaysSince(wordMetrics.last_seen)
        sessionCount == Len(recentSessions)
        score == Mul(accuracy, 600000)
                     + SessionTerm(sessionCount)
                     + Mul(Max(0, 100000 - daysSinceLastSeen * 10000), 100000)
    IN  Max(0, Min(Micro, score))

calculateInterferenceRisk(wordMetrics, recentSessions) ==
    LET recentWordCount ==
            SumSeq([i \in 1..Len(recentSessions) |-> recentSessions[i].words_practiced])
        baseRisk == Min(800000, Div(recentWordCount, 50))
        confidenceRisk == Micro - wordMetrics.confidence_score
    IN  Max(0, Min(Micro, (baseRisk + confidenceRisk) \div 2))

\* activities.sort((a, b) => b.priority - a.priority) (stable)
RECURSIVE SortByPriority(_)
SortByPriority(activities) ==
    IF activities = <<>> THEN <<>>
    ELSE LET last == activities[Len(activities)]
             sorted == SortByPriority(SubSeq(activities, 1, Len(activities) - 1))
         IN  SelectSeq(sorted, LAMBDA a : a.priority >= last.priority)
                 \o <<last>>
                 \o SelectSeq(sorted, LAMBDA a : a.priority < last.priority)

\* variant: a review is suggested below the score 0.7 that makes retrieval
\* practice needed
ReviewThresholdAsNeeded == 7 * 100000

\* consolidationScore < 0.5
ReviewThreshold == 500000

generateConsolidationActivities(consolidationScore, interferenceRisk, wordMetrics) ==
    SortByPriority(
        (IF consolidationScore < ReviewThreshold
         THEN <<[activity_type |-> "review", priority |-> 900000,
                 estimated_benefit |-> 800000, time_required |-> 3]>>
         ELSE <<>>)
        \o (IF interferenceRisk > 600000
            THEN <<[activity_type |-> "context", priority |-> 700000,
                    estimated_benefit |-> 600000, time_required |-> 5]>>
            ELSE <<>>)
        \o (IF wordMetrics.confidence_score < 600000
            THEN <<[activity_type |-> "test", priority |-> 800000,
                    estimated_benefit |-> 700000, time_required |-> 2]>>
            ELSE <<>>))

analyzeMemoryConsolidation(wordMetrics, recentSessions) ==
    LET consolidationScore == calculateConsolidationScore(wordMetrics, recentSessions)
        interferenceRisk == calculateInterferenceRisk(wordMetrics, recentSessions)
    IN  [consolidation_score |-> consolidationScore,
         interference_risk |-> interferenceRisk,
         retrieval_practice_needed |->
             consolidationScore < 700000 \/ interferenceRisk > 600000,
         consolidation_activities |->
             generateConsolidationActivities(consolidationScore, interferenceRisk,
                                             wordMetrics)]

----------------------------------------------------------------------------
(* SpecConsolidate: analyzeMemoryConsolidation of one item and its recent
   sessions *)

\* encounter_count and correct_count of the item
ConsolidationCounts == {<<0, 0>>, <<1, 0>>, <<4, 1>>, <<2, 1>>, <<4, 3>>, <<5, 4>>, <<3, 3>>}

InitConsolidate ==
    /\ word_metrics = <<>>
    /\ learning_data = <<>>
    /\ hist = [w \in Words |-> <<>>]
    /\ progress = InitialProgress
    /\ backend = InitialBackend
    /\ now = FirstDay + 30 * TicksPerDay
    /\ \E counts \in ConsolidationCounts, confidence \in {0, 250000, 500000, 750000, Micro},
          ago \in {0, 1, 3 * TicksPerDay, 20 * TicksPerDay},
          n \in {0, 1, 2, 3, 4, 10, 12}, words \in {0, 5, 20} :
          ret = [op |-> "input",
                 wordMetrics |-> [word_id |-> "w1",
                                  encounter_count |-> counts[1],
                                  correct_count |-> counts[2],
                                  last_seen |-> now - ago,
                                  confidence_score |-> confidence],
                 recentSessions |->
                     [i \in 1..n |-> [date |-> now - i * TicksPerDay,
                                      duration_minutes |-> 15,
                                      words_practiced |-> words]]]

AnalyzeMemoryConsolidation ==
    /\ ret.op = "input"
    /\ ret' = [op |-> "analyzeMemoryConsolidation",
               wordMetrics |-> ret.wordMetrics,
               recentSessions |-> ret.recentSessions,
               consolidation |-> analyzeMemoryConsolidation(ret.wordMetrics,
                                                            ret.recentSessions)]
    /\ UNCHANGED <<word_metrics, learning_data, now, hist, progress, backend>>

NextConsolidate == AnalyzeMemoryConsolidation

SpecConsolidate == InitConsolidate /\ [][NextConsolidate]_vars

----------------------------------------------------------------------------
(* TemporalPatternEngine.analyzeLearningRhythm (src/unnamed/part_005) *)

\* array.slice(start, end): a negative index counts from the end
Slice(array, start, end) ==
    LET from == IF start < 0 THEN Max(Len(array) + start, 0) ELSE Min(start, Len(array))
        to == IF end < 0 THEN Max(Len(array) + end, 0) ELSE Min(end, Len(array))
    IN  SubSeq(array, from + 1, to)

\* .map(s => s.hour) of hourly statistics
HoursOf(stats) == [i \in 1..Len(stats) |-> stats[i].unit]

identifyPeakWindow(hourlyStats) ==
    IF Len(hourlyStats) = 0
    THEN [start_hour |-> 9, end_hour |-> 11, performance_multiplier |-> Micro]
    ELSE
        LET sortedStats == SortByKeyDesc(hourlyStats)
            topPerformers == Slice(sortedStats, 0, Min(3, Len(sortedStats)))
            hours == {topPerformers[i].unit : i \in 1..Len(topPerformers)}
            avgTopPerformance ==
                SumSeq([i \in 1..Len(topPerformers) |-> topPerformers[i].key])
                    \div Len(topPerformers)
            avgAllPerformance ==
                SumSeq([i \in 1..Len(hourlyStats) |-> hourlyStats[i].key])
                    \div Len(hourlyStats)
        IN  [start_hour |-> CHOOSE h \in hours : \A g \in hours : h <= g,
             end_hour |-> (CHOOSE h \in hours : \A g \in hours : h >= g) + 1,
             performance_multiplier |->
                 IF avgAllPerformance > 0
                 THEN (IF avgTopPerformance >= 2 * avgAllPerformance THEN 2 * Micro
                       ELSE Div(avgTopPerformance, avgAllPerformance))
                 ELSE Micro]

\* Math.ceil(n * 0.3) and Math.ceil(n * 0.7); for n up to 24 the product in
\* floating point has the ceiling of the exact one
CeilThreeTenths(n) == CeilDiv(3 * n, 10)
CeilSevenTenths(n) == CeilDiv(7 * n, 10)

analyzeEnergyPattern(hourlyStats) ==
    LET sortedByPerformance == SortByKeyDesc(hourlyStats)
        n == Len(hourlyStats)
    IN  [peak_hours |-> HoursOf(Slice(sortedByPerformance, 0, CeilThreeTenths(n))),
         decline_hours |-> HoursOf(Slice(sortedByPerformance, -CeilThreeTenths(n), n)),
         recovery_hours |->
             HoursOf(Slice(sortedByPerformance, CeilThreeTenths(n), CeilSevenTenths(n))),
         fatigue_threshold |-> 45]

calculateRhythmStrength(hourlyStats) ==
    IF Len(hourlyStats) < 3 THEN 0
    ELSE
        LET performances == [i \in 1..Len(hourlyStats) |-> hourlyStats[i].key]
            variance == calculateVariance(performances)
            mean == SumSeq(performances) \div Len(performances)
        IN  Min(900000, Div(variance, Max(mean, 100000)))

calculateTimeConsistency(data) ==
    LET dailyData == groupByDay(data)
        dailyCounts == [j \in 1..Len(dailyData) |-> Len(dailyData[j].points)]
    IN  IF Len(dailyCounts) = 0 THEN 0
        ELSE
            LET variance == calculateVarianceOfCounts(dailyCounts)
                mean == Div(SumSeq(dailyCounts), Len(dailyCounts))
            IN  Max(0, Micro - Div(variance, Max(mean, Micro)))

analyzeLearningRhythm(learningData) ==
    LET hourlyData == groupByHour(learningData)
        \* hourlyStats.sort(..) sorts the array in place: every later use sees
        \* it sorted
        hourlyStats == SortByKeyDesc(SelectSeq(PerformanceEntries(hourlyData),
                                               LAMBDA stat : stat.dataPoints >= 3))
    IN  [optimal_hours |-> HoursOf(Slice(hourlyStats, 0, 4)),
         peak_performance_window |-> identifyPeakWindow(hourlyStats),
         energy_decline_pattern |-> analyzeEnergyPattern(hourlyStats),
         consistency_score |-> calculateTimeConsistency(learningData),
         rhythm_strength |-> calculateRhythmStrength(hourlyStats)]

----------------------------------------------------------------------------
(* SpecRhythm: analyzeLearningRhythm on logs with 0 to 24 qualifying hours *)

\* the accuracy recorded in hour h of the day
HourAccuracy(shape, h) ==
    CASE shape = "rising" -> h * 40000
      [] shape = "falling" -> (24 - h) * 40000
      [] shape = "alternating" -> (h % 2) * Micro
      [] shape = "flat" -> 500000

\* three events, on three days, in each of the hours 0..qualifying-1 and two in
\* each of the next `sparse` hours
RhythmLog(qualifying, sparse, shape) ==
    LET event(h, d) == [timestamp |-> FirstDay + d * TicksPerDay + h,
                        metric_type |-> "accuracy_rate",
                        value |-> HourAccuracy(shape, h), word_id |-> ""]
    IN  [i \in 1..(3 * qualifying) |-> event((i - 1) \div 3, (i - 1) % 3)]
            \o [i \in 1..(2 * sparse) |-> event(qualifying + (i - 1) \div 2, (i - 1) % 2)]

InitRhythm ==
    /\ word_metrics = <<>>
    /\ learning_data = <<>>
    /\ now = 0
    /\ hist = [w \in Words |-> <<>>]
    /\ progress = InitialProgress
    /\ backend = InitialBackend
    /\ \E qualifying \in 0..24, sparse \in 0..2,
          shape \in {"rising", "falling", "alternating", "flat"} :
          /\ qualifying + sparse <= 24
          /\ ret = [op |-> "input",
                    learningData |-> RhythmLog(qualifying, sparse, shape)]

AnalyzeLearningRhythm ==
    /\ ret.op = "input"
    /\ ret' = [op |-> "analyzeLearningRhythm",
               learningData |-> ret.learningData,
               rhythm |-> analyzeLearningRhythm(ret.learningData)]
    /\ UNCHANGED <<word_metrics, learning_data, now, hist, progress, backend>>

NextRhythm == AnalyzeLearningRhythm

SpecRhythm == InitRhythm /\ [][NextRhythm]_vars

----------------------------------------------------------------------------
(* TemporalPatternEngine.analyzeLearningMomentum (src/unnamed/part_005) *)

\* data.filter(point => new Date(point.timestamp) >= cutoffDate), the cutoff
\* being days * 24 hours before Date.now()
getRecentData(data, days) ==
    SelectSeq(data, LAMBDA point : point.timestamp >= now - days * TicksPerDay)

getRecentSessions(sessions, days) ==
    SelectSeq(sessions, LAMBDA session : session.date >= now - days * TicksPerDay)

\* groupSessionsByDay(sessions): the keys session.date.split('T')[0], the
\* calendar days of the dates
groupSessionsByDay(sessions) ==
    InsertionOrder([i \in 1..Len(sessions) |-> getDate(sessions[i].date)])

\* daysWithSessions of calculateStreakStrength, 0 for no session
DaysWithSessions(recentSessions) ==
    IF Len(recentSessions) = 0 THEN 0 ELSE Len(groupSessionsByDay(recentSessions))

calculateStreakStrength(recentSessions) == Div(DaysWithSessions(recentSessions), 14)

calculateMomentumDirection(recentData) ==
    IF Len(recentData) < 10 THEN "maintaining"
    ELSE
        LET accuracyData ==
                SortByTimestamp(SelectSeq(recentData,
                                          LAMBDA d : d.metric_type = "accuracy_rate"))
            half == Len(accuracyData) \div 2
            firstHalf == Slice(accuracyData, 0, half)
            secondHalf == Slice(accuracyData, half, Len(accuracyData))
            firstHalfAvg ==
                SumSeq([i \in 1..Len(firstHalf) |-> firstHalf[i].value]) \div Len(firstHalf)
            secondHalfAvg ==
                SumSeq([i \in 1..Len(secondHalf) |-> secondHalf[i].value])
                    \div Len(secondHalf)
            difference == secondHalfAvg - firstHalfAvg
        IN  IF Len(accuracyData) < 5 THEN "maintaining"
            ELSE IF difference > 50000 THEN "building"
            ELSE IF difference < -50000 THEN "declining"
            ELSE "maintaining"

\* Math.round(baseDays * streakStrength) with baseDays 7, 7 * 1.5 or 7 * 0.7;
\* 7 * 0.7 is 4.8999999999999995 in floating point, a little under 4.9, so a
\* product that would be halfway with 4.9 rounds down
predictContinuation(recentData, recentSessions) ==
    LET days == DaysWithSessions(recentSessions)
        momentumDirection == calculateMomentumDirection(recentData)
    IN  CASE momentumDirection = "building" -> RoundDiv(3 * days, 4)
          [] momentumDirection = "declining" -> (98 * days + 139) \div 280
          [] OTHER -> RoundDiv(days, 2)

calculateBreakthroughProbability(learningData) ==
    LET accuracyData == SelectSeq(getRecentData(learningData, 30),
                                  LAMBDA d : d.metric_type = "accuracy_rate")
    IN  IF Len(accuracyData) < 20 THEN 300000
        ELSE
            LET last == Slice(accuracyData, -10, Len(accuracyData))
                recentAverage == SumSeq([i \in 1..Len(last) |-> last[i].value]) \div 10
                historicalAverage ==
                    SumSeq([i \in 1..Len(accuracyData) |-> accuracyData[i].value])
                        \div Len(accuracyData)
                improvement == recentAverage - historicalAverage
            IN  Min(900000, Max(100000, 500000 + improvement * 2))

calculatePlateauRisk(learningData) ==
    LET accuracyData == SelectSeq(getRecentData(learningData, 21),
                                  LAMBDA d : d.metric_type = "accuracy_rate")
    IN  IF Len(accuracyData) < 15 THEN 300000
        ELSE
            LET smoothedData ==
                    applyMovingAverage([i \in 1..Len(accuracyData) |->
                                           accuracyData[i].value], 5)
                variance == calculateVariance(smoothedData)
            IN  Min(900000, Max(100000, Micro - variance * 10))

analyzeLearningMomentum(learningData, studySessions) ==
    LET recentData == getRecentData(learningData, 14)
        recentSessions == getRecentSessions(studySessions, 14)
    IN  [current_streak_strength |-> calculateStreakStrength(recentSessions),
         momentum_direction |-> calculateMomentumDirection(recentData),
         predicted_continuation |-> predictContinuation(recentData, recentSessions),
         breakthrough_probability |-> calculateBreakthroughProbability(learningData),
         plateau_risk |-> calculatePlateauRisk(learningData)]

----------------------------------------------------------------------------
(* SpecMomentum: analyzeLearningMomentum at several times of day *)

\* n sessions, one a day at the given hour, the latest `ahead` days after
\* today
MomentumSessions(n, hour, ahead) ==
    [i \in 1..n |->
        [date |-> ((now \div TicksPerDay) + ahead - (i - 1)) * TicksPerDay + hour,
         duration_minutes |-> 15,
         words_practiced |-> 10]]

\* m accuracy events, one every 12 hours back from now, oldest first
MomentumLog(m, trend) ==
    [i \in 1..m |->
        [timestamp |-> now - (m - i) * 12,
         metric_type |-> "accuracy_rate",
         value |-> CASE trend = "up" -> IF 2 * i > m THEN Micro ELSE 0
                     [] trend = "down" -> IF 2 * i > m THEN 0 ELSE Micro
                     [] trend = "flat" -> 500000,
         word_id |-> ""]]

InitMomentum ==
    /\ word_metrics = <<>>
    /\ learning_data = <<>>
    /\ hist = [w \in Words |-> <<>>]
    /\ progress = InitialProgress
    /\ backend = InitialBackend
    /\ now \in {FirstDay + 20 * TicksPerDay + h : h \in {0, 9, 23}}
    /\ \E n \in {0, 1, 5, 10, 14, 15, 16}, hour \in {0, 9, 23}, ahead \in {0, 2},
          m \in {0, 12, 24}, trend \in {"up", "down", "flat"} :
          ret = [op |-> "input",
                 learningData |-> MomentumLog(m, trend),
                 studySessions |-> MomentumSessions(n, hour, ahead)]

AnalyzeLearningMomentum ==
    /\ ret.op = "input"
    /\ ret' = [op |-> "analyzeLearningMomentum",
               learningData |-> ret.learningData,
               studySessions |-> ret.studySessions,
               momentum |-> analyzeLearningMomentum(ret.learningData, ret.studySessions)]
    /\ UNCHANGED <<word_metrics, learning_data, now, hist, progress, backend>>

NextMomentum == AnalyzeLearningMomentum

SpecMomentum == InitMomentum /\ [][NextMomentum]_vars

----------------------------------------------------------------------------
(* The event log at its cap: the store's operations on a log that already
   holds nearly MAX_LEARNING_DATA_POINTS events *)

MaxLogged == 4     \* events a run records before it has to reset

\* a log of n events recorded at tick 0, the i-th carrying the value i
FilledLog(n) ==
    [i \in 1..n |-> [timestamp |-> 0, metric_type |-> "session_duration",
                     value |-> i, word_id |-> ""]]

\* the events of the log recorded by the run (the clock stands at 1)
Logged == Cardinality({i \in 1..Len(learning_data) : learning_data[i].timestamp = now})

SessionInputs ==
    {[duration_minutes |-> 10, words_practiced |-> <<"w1">>, quiz_score |-> <<80>>],
     [duration_minutes |-> 5, words_practiced |-> <<>>, quiz_score |-> <<>>]}

InitLog ==
    /\ word_metrics = <<>>
    /\ learning_data = FilledLog(MAX_LEARNING_DATA_POINTS - 2)
    /\ now = 1
    /\ hist = [w \in Words |-> <<>>]
    /\ progress = Merged(InitialProgress, [syncStatus |-> "offline"])
    /\ backend = InitialBackend
    /\ ret = NoCall

LogRecord ==
    /\ Logged < MaxLogged
    /\ \E metricType \in {"accuracy_rate", "engagement_score"}, value \in {0, Micro} :
          RecordLearningData(metricType, value)

LogInteraction ==
    /\ Logged < MaxLogged
    /\ \E correct \in BOOLEAN : RecordWordInteraction("w1", correct, 1)

LogReview ==
    /\ Logged < MaxLogged
    /\ \E quality \in {2, 4} : UpdateWordSchedule("w1", quality, 1)

LogSession ==
    /\ Logged < MaxLogged
    /\ \E sessionData \in SessionInputs : AddStudySession(sessionData)

LogReset ==
    /\ learning_data # <<>>
    /\ ResetProgress

NextLog == LogRecord \/ LogInteraction \/ LogReview \/ LogSession \/ LogReset

SpecLog == InitLog /\ [][NextLog]_vars

----------------------------------------------------------------------------
(* Array identity in the services: which array each Array.prototype.sort of
   the services sorts. An array is either one of the arrays handed to the
   service or a fresh one; filter, map, slice and [...a] give a fresh array,
   sort sorts its receiver in place. *)

\* the arrays handed to a call, before any array is in hand
Receiving(inputs) == [inputs |-> inputs, ref |-> 0, array |-> <<>>]

\* the k-th array handed to the call
Input(m, k) == [m EXCEPT !.ref = k, !.array = m.inputs[k]]

\* variant: the result shares the identity of the receiver
Aliased(m, array) == [m EXCEPT !.array = array]

\* the result of receiver.filter(...), receiver.map(...), Object.entries(...):
\* a new array
Fresh(m, array) == [m EXCEPT !.ref = 0, !.array = array]

\* receiver.sort(...), sorted being the receiver's elements in the new order
SortInPlace(m, sorted) ==
    IF m.ref = 0 THEN [m EXCEPT !.array = sorted]
    ELSE [m EXCEPT !.array = sorted, !.inputs[m.ref] = sorted]

\* calculateForgettingCurve(wordMetrics, reviewHistory), reviewHistory being
\* the k-th array: reviewHistory.filter(...).sort(...)
calculateForgettingCurveArrays(m, k, wordId) ==
    LET reviews == Fresh(Input(m, k),
                         SelectSeq(m.inputs[k], LAMBDA dp : dp.word_id = wordId))
    IN  SortInPlace(reviews, SortByTimestamp(reviews.array))

\* the calls of calculateForgettingCurve for the first i entries of
\* allWordMetrics
RECURSIVE ModelsArrays(_, _)
ModelsArrays(m, i) ==
    IF i = 0 THEN m
    ELSE calculateForgettingCurveArrays(ModelsArrays(m, i - 1), 2, m.inputs[1][i].word_id)

\* getForgettingCurveInsights(allWordMetrics, allReviewData): models is the
\* result of allWordMetrics.map, sorted in place by getMostForgettableWords
\* and again by getStrongestMemories
getForgettingCurveInsightsArrays(m) ==
    LET called == ModelsArrays(m, Len(m.inputs[1]))
        models == Fresh(Input(called, 1),
                        [i \in 1..Len(m.inputs[1]) |->
                            calculateForgettingCurve(m.inputs[1][i], m.inputs[2])])
        forgettable == SortInPlace(models, SortByDecay(models.array))
    IN  SortInPlace(forgettable, SortByStrength(forgettable.array))

\* aggregateDataByPeriod: Object.entries(grouped).map(...).sort(...)
aggregateDataByPeriodArrays(m, metricType, period) ==
    LET aggregates == Fresh(Input(m, 1),
                            aggregateDataByPeriod(m.inputs[1], metricType, period))
    IN  SortInPlace(aggregates, SortByPeriod(aggregates.array))

\* the loop of analyzeLearningPatterns over the first i metric types:
\* filteredData.filter(...), then analyzeMetricPattern's dataPoints.sort(...)
RECURSIVE MetricPatternArrays(_, _, _)
MetricPatternArrays(filteredData, metricTypes, i) ==
    IF i = 0 THEN filteredData
    ELSE LET before == MetricPatternArrays(filteredData, metricTypes, i - 1)
             held == [before EXCEPT !.ref = filteredData.ref,
                                    !.array = filteredData.array]
             metricData ==
                 Fresh(held, SelectSeq(held.array,
                                       LAMBDA point : point.metric_type = metricTypes[i]))
         IN  IF Len(metricData.array) < 10 THEN metricData
             ELSE SortInPlace(metricData, SortByTimestamp(metricData.array))

\* analyzeLearningPatterns(dataPoints, timeRange); timeRange is <<>> when it is
\* not given, and then filteredData is dataPoints itself
analyzeLearningPatternsArrays(m, timeRange) ==
    LET filteredData ==
            IF timeRange # <<>>
            THEN Fresh(Input(m, 1),
                       SelectSeq(m.inputs[1],
                                 LAMBDA point : /\ point.timestamp >= timeRange[1].start
                                                /\ point.timestamp <= timeRange[1].end))
            ELSE Input(m, 1)
        metricTypes ==
            InsertionOrder([i \in 1..Len(filteredData.array) |->
                               filteredData.array[i].metric_type])
    IN  MetricPatternArrays(filteredData, metricTypes, Len(metricTypes))

\* calculateMetricCorrelations: dataPoints.filter(...) per metric type, no sort
RECURSIVE MetricCorrelationArrays(_, _, _)
MetricCorrelationArrays(m, metricTypes, i) ==
    IF i = 0 THEN m
    ELSE Fresh(Input(MetricCorrelationArrays(m, metricTypes, i - 1), 1),
               SelectSeq(m.inputs[1], LAMBDA point : point.metric_type = metricTypes[i]))

calculateMetricCorrelationsArrays(m) ==
    LET metricTypes ==
            InsertionOrder([i \in 1..Len(m.inputs[1]) |-> m.inputs[1][i].metric_type])
    IN  MetricCorrelationArrays(m, metricTypes, Len(metricTypes))

\* the entries of the hours with at least atLeast points, as
\* Object.entries(hourlyData).map(...).filter(...) gives them
HourlyStats(learningData, atLeast) ==
    LET hourly == groupByHour(learningData)
    IN  SelectSeq([j \in 1..Len(hourly) |->
                      [hour |-> hourly[j].key,
                       key |-> calculateAveragePerformance(hourly[j].points),
                       dataCount |-> Len(hourly[j].points)]],
                  LAMBDA stat : stat.dataCount >= atLeast)

\* analyzeTemporalPatterns(learningData, studySessions): the sorts of
\* analyzeDailyRhythms and analyzePerformanceWaves
analyzeTemporalPatternsArrays(m) ==
    IF Len(m.inputs[1]) < minDataPoints THEN m
    ELSE LET sortedHours ==
                 IF Len(groupByHour(m.inputs[1])) < 8 THEN m
                 ELSE LET entries == Fresh(Input(m, 1), HourlyStats(m.inputs[1], 5))
                      IN  SortInPlace(entries, SortByKeyDesc(entries.array))
             accuracyData ==
                 Fresh(Input(sortedHours, 1),
                       SelectSeq(m.inputs[1],
                                 LAMBDA d : d.metric_type = "accuracy_rate"))
         IN  SortInPlace(accuracyData, SortByTimestamp(accuracyData.array))

\* analyzeLearningRhythm(learningData): hourlyStats.sort(...) on the array
\* that Object.entries(hourlyData).map(...).filter(...) gave
analyzeLearningRhythmArrays(m) ==
    LET hourlyStats == Fresh(Input(m, 1), HourlyStats(m.inputs[1], 3))
    IN  SortInPlace(hourlyStats, SortByKeyDesc(hourlyStats.array))

\* analyzeLearningMomentum(learningData, studySessions): getRecentData and
\* getRecentSessions filter, calculateMomentumDirection filters and sorts
analyzeLearningMomentumArrays(m) ==
    LET recentData == Fresh(Input(m, 1), getRecentData(m.inputs[1], 14))
        recentSessions == Fresh(Input(recentData, 2), getRecentSessions(m.inputs[2], 14))
    IN  IF Len(recentData.array) < 10 THEN recentSessions
        ELSE LET held == [recentSessions EXCEPT !.ref = recentData.ref,
                                                !.array = recentData.array]
                 accuracyData ==
                     Fresh(held, SelectSeq(held.array,
                                           LAMBDA d : d.metric_type = "accuracy_rate"))
             IN  SortInPlace(accuracyData, SortByTimestamp(accuracyData.array))

----------------------------------------------------------------------------
(* SpecFrame: the services on collections that are not in the order the
   services sort them into *)

Services ==
    {"calculateForgettingCurve", "getForgettingCurveInsights", "aggregateDataByPeriod",
     "analyzeLearningPatterns", "calculateMetricCorrelations", "analyzeTemporalPatterns",
     "analyzeLearningRhythm", "analyzeLearningMomentum"}

\* n events of the last days, newest first ("descending") or shuffled
FrameLog(n, order, kinds) ==
    [i \in 1..n |->
        [timestamp |-> now - 5 * (IF order = "descending" THEN i ELSE (7 * i) % n),
         metric_type |-> IF kinds = "mixed" /\ i % 2 = 0 THEN "response_time"
                         ELSE "accuracy_rate",
         value |-> IF kinds = "mixed" /\ i % 2 = 0 THEN 2 * Micro
                   ELSE (i % 3) * 500000,
         word_id |-> IF i % 3 = 0 THEN "w2" ELSE "w1"]]

\* the entries of both words, the less forgettable one first
FrameMetrics ==
    [i \in 1..2 |->
        [word_id |-> IF i = 1 THEN "w2" ELSE "w1",
         encounter_count |-> 4 * i,
         correct_count |-> 3 * i,
         incorrect_count |-> i,
         avg_response_time |-> 2,
         first_seen |-> now - 30 * TicksPerDay,
         last_seen |-> now - i * TicksPerDay,
         confidence_score |-> 750000,
         retention_estimate |-> Micro,
         next_review_date |-> now + TicksPerDay,
         spaced_repetition_data |-> <<>>]]

\* sessions of the last days, newest first
FrameSessions ==
    [i \in 1..3 |-> [date |-> now - i * TicksPerDay, duration_minutes |-> 15,
                     words_practiced |-> 10]]

\* the arrays handed to the service
ServiceInputs(service, log) ==
    CASE service = "getForgettingCurveInsights" -> <<FrameMetrics, log>>
      [] service \in {"analyzeTemporalPatterns", "analyzeLearningMomentum"} ->
             <<log, FrameSessions>>
      [] OTHER -> <<log>>

\* the arrays after the call service(...inputs, argument)
ServiceArrays(service, inputs, argument) ==
    LET m == Receiving(inputs)
    IN  CASE service = "calculateForgettingCurve" ->
                 calculateForgettingCurveArrays(m, 1, argument.word_id)
          [] service = "getForgettingCurveInsights" -> getForgettingCurveInsightsArrays(m)
          [] service = "aggregateDataByPeriod" ->
                 aggregateDataByPeriodArrays(m, argument.metric_type, argument.period)
          [] service = "analyzeLearningPatterns" ->
                 analyzeLearningPatternsArrays(m, argument.timeRange)
          [] service = "calculateMetricCorrelations" ->
                 calculateMetricCorrelationsArrays(m)
          [] service = "analyzeTemporalPatterns" -> analyzeTemporalPatternsArrays(m)
          [] service = "analyzeLearningRhythm" -> analyzeLearningRhythmArrays(m)
          [] service = "analyzeLearningMomentum" -> analyzeLearningMomentumArrays(m)

InitFrame ==
    /\ word_metrics = <<>>
    /\ learning_data = <<>>
    /\ hist = [w \in Words |-> <<>>]
    /\ progress = InitialProgress
    /\ backend = InitialBackend
    /\ now = FirstDay + 30 * TicksPerDay
    /\ \E service \in Services, n \in {12, 50}, order \in {"descending", "shuffled"},
          kinds \in {"accuracy", "mixed"}, ranged \in BOOLEAN, word \in Words :
          ret = [op |-> "input",
                 service |-> service,
                 inputs |-> ServiceInputs(service, FrameLog(n, order, kinds)),
                 argument |-> [word_id |-> word,
                               metric_type |-> "accuracy_rate",
                               period |-> "day",
                               timeRange |->
                                   IF ranged
                                   THEN <<[start |-> now - 20 * TicksPerDay, end |-> now]>>
                                   ELSE <<>>]]

CallService ==
    /\ ret.op = "input"
    /\ ret' = [op |-> ret.service,
               argument |-> ret.argument,
               before |-> ret.inputs,
               after |-> ServiceArrays(ret.service, ret.inputs, ret.argument).inputs]
    /\ UNCHANGED <<word_metrics, learning_data, now, hist, progress, backend>>

NextFrame == CallService

SpecFrame == InitFrame /\ [][NextFrame]_vars

----------------------------------------------------------------------------
(* SpecStore: the store's actions from the initial store *)

MaxAway == 2       \* fields away from their initial value before a further change
MaxRequests == 1   \* requests on their way to the server

\* the number of fields of the store that differ from their initial value
Away ==
    Cardinality({k \in ProgressKeys : progress[k] # InitialProgress[k]})
        + (IF word_metrics # <<>> THEN 1 ELSE 0)
        + (IF learning_data # <<>> THEN 1 ELSE 0)

\* the store can take a further change
Changeable ==
    /\ Away < MaxAway
    /\ Len(backend.requests) < MaxRequests \/ progress.syncStatus = "offline"

InitStore ==
    /\ word_metrics = <<>>
    /\ learning_data = <<>>
    /\ now = 0
    /\ hist = [w \in Words |-> <<>>]
    /\ progress = InitialProgress
    /\ backend = InitialBackend
    /\ ret = NoCall

StoreAddLearnedWord == Changeable /\ \E wordId \in Words : AddLearnedWord(wordId)

StoreRemoveLearnedWord ==
    /\ Changeable
    /\ \E i \in 1..Len(progress.learned_words) :
          RemoveLearnedWord(progress.learned_words[i])

StoreAddExperiencePoints ==
    /\ Changeable
    /\ progress.experience_points < 2 * POINTS_PER_LEVEL
    /\ \E points \in {0, 50, 100} : AddExperiencePoints(points)

StoreUpdateStreak == Changeable /\ UpdateStreak

StoreAddStudySession ==
    /\ Changeable
    /\ progress.study_sessions = <<>>
    /\ \E sessionData \in SessionInputs : AddStudySession(sessionData)

StoreSetSyncStatus ==
    \E status \in {"idle", "syncing", "error", "offline"} :
        /\ status # progress.syncStatus
        /\ SetSyncStatus(status)

StoreUpdateLearningStyle ==
    /\ Changeable
    /\ \E style \in {"visual", "auditory"} :
          /\ progress.learning_style # <<style>>
          /\ UpdateLearningStyle(style)

StoreUpdateSpacedRepetition ==
    /\ Changeable
    /\ progress.spaced_repetition = <<>>
    /\ UpdateSpacedRepetition("w1", [word_id |-> "w1", next_interval |-> 6])

StoreUpdatePersonalization ==
    /\ Changeable
    /\ \E goal \in {30, 60} :
          /\ progress.personalization.daily_study_goal # goal
          /\ UpdatePersonalization([daily_study_goal |-> goal])

StoreUpdateCategoryAnalytics ==
    /\ Changeable
    /\ \E wordsLearned \in {1, 2} :
          /\ \A i \in 1..Len(progress.category_analytics) :
                progress.category_analytics[i].words_learned # wordsLearned
          /\ UpdateCategoryAnalytics("food", wordsLearned)

StoreRecordWordInteraction ==
    /\ Changeable
    /\ learning_data = <<>>
    /\ \E correct \in BOOLEAN : RecordWordInteraction("w1", correct, 1)

StoreResetProgress ==
    /\ Away > 0
    /\ ResetProgress

NextStore ==
    \/ StoreAddLearnedWord
    \/ StoreRemoveLearnedWord
    \/ StoreAddExperiencePoints
    \/ StoreUpdateStreak
    \/ StoreAddStudySession
    \/ StoreSetSyncStatus
    \/ StoreUpdateLearningStyle
    \/ StoreUpdateSpacedRepetition
    \/ StoreUpdatePersonalization
    \/ StoreUpdateCategoryAnalytics
    \/ StoreRecordWordInteraction
    \/ StoreResetProgress

SpecStore == InitStore /\ [][NextStore]_vars

----------------------------------------------------------------------------
(* analyzeLearningPatterns (src/unnamed/part_006): the trend of each metric *)

\* calculateTrend(values) of micro numbers: the least-squares slope over the
\* indices 0..n-1 and Math.min(1, |slope| / Math.sqrt(yVariance / n)), which
\* is NaN for 0 / 0
calculateTrend(values) ==
    IF Len(values) < 2 THEN [direction |-> "stable", strength |-> <<0>>]
    ELSE LET n == Len(values)
             xSum == (n * (n - 1)) \div 2
             ySum == SumSeq(values)
             xySum == SumSeq([i \in 1..n |-> values[i] * (i - 1)])
             xSquaredSum == (n * (n - 1) * (2 * n - 1)) \div 6
             numerator == n * xySum - xSum * ySum
             denominator == n * xSquaredSum - xSum * xSum
             slope == IF numerator >= 0 THEN numerator \div denominator
                      ELSE -((-numerator) \div denominator)
             yMean == ySum \div n
             yVariance == SumSeq([i \in 1..n |-> SMul(values[i] - yMean, values[i] - yMean)])
             deviation == SqrtBetween((yVariance \div n) * 100, 0, 46340) * 100
         IN  [direction |-> IF numerator > 10000 * denominator THEN "increasing"
                            ELSE IF numerator < -10000 * denominator THEN "decreasing"
                            ELSE "stable",
              strength |-> IF yVariance = 0
                           THEN IF numerator = 0 THEN NaN ELSE <<Micro>>
                           ELSE IF deviation = 0 THEN <<Micro>>
                           ELSE <<Min(Micro, Div(Abs(slope), deviation))>>]

\* calculateSuccessCorrelation(dataPoints, metricType), in micro
calculateSuccessCorrelation(metricType) ==
    CASE metricType = "accuracy_rate" -> 800000
      [] metricType = "response_time" -> -300000
      [] metricType = "session_duration" -> 400000
      [] OTHER -> 0

\* analyzeMetricPattern(dataPoints, metricType): the pattern's metric_type,
\* trend, trend_strength and correlation_score
analyzeMetricPattern(dataPoints, metricType) ==
    LET sortedData == SortByTimestamp(dataPoints)
        trend == calculateTrend([i \in 1..Len(sortedData) |-> sortedData[i].value])
    IN  [metric_type |-> metricType,
         trend |-> trend.direction,
         trend_strength |-> trend.strength,
         correlation_score |-> calculateSuccessCorrelation(metricType)]

\* analyzeLearningPatterns(dataPoints, timeRange); timeRange is <<>> when it is
\* not given
analyzeLearningPatterns(dataPoints, timeRange) ==
    LET filteredData ==
            IF timeRange # <<>>
            THEN SelectSeq(dataPoints,
                           LAMBDA point : /\ point.timestamp >= timeRange[1].start
                                          /\ point.timestamp <= timeRange[1].end)
            ELSE dataPoints
        metricTypes ==
            InsertionOrder([i \in 1..Len(filteredData) |-> filteredData[i].metric_type])
        analyzed ==
            SelectSeq(metricTypes,
                      LAMBDA metricType :
                          Len(SelectSeq(filteredData,
                                        LAMBDA point : point.metric_type = metricType)) >= 10)
    IN  [j \in 1..Len(analyzed) |->
            analyzeMetricPattern(
                SelectSeq(filteredData, LAMBDA point : point.metric_type = analyzed[j]),
                analyzed[j])]

----------------------------------------------------------------------------
(* SpecTrend: analyzeLearningPatterns on logs of one or two metric kinds *)

TrendShapes == {"zeros", "ones", "halves", "rising", "falling", "alternating", "late"}

\* the value of the i-th of n samples of a shape
ShapedValue(shape, i, n) ==
    CASE shape = "zeros" -> 0
      [] shape = "ones" -> Micro
      [] shape = "halves" -> 500000
      [] shape = "rising" -> IF 2 * i > n THEN Micro ELSE 0
      [] shape = "falling" -> IF 2 * i > n THEN 0 ELSE Micro
      [] shape = "alternating" -> (i % 2) * Micro
      [] shape = "late" -> IF i = n THEN Micro ELSE 0

\* n accuracy_rate samples of a shape, one an hour, each followed by a
\* session_duration sample when second is not "none"
TrendLog(n, shape, second) ==
    LET accuracy == [i \in 1..n |->
                        [timestamp |-> now - (n - i) * 2,
                         metric_type |-> "accuracy_rate",
                         value |-> ShapedValue(shape, i, n),
                         word_id |-> ""]]
        duration == [i \in 1..n |->
                        [timestamp |-> now - (n - i) * 2 + 1,
                         metric_type |-> "session_duration",
                         value |-> ShapedValue(second, i, n) * 2,
                         word_id |-> ""]]
    IN  IF second = "none" THEN accuracy ELSE accuracy \o duration

InitTrend ==
    /\ word_metrics = <<>>
    /\ learning_data = <<>>
    /\ hist = [w \in Words |-> <<>>]
    /\ progress = InitialProgress
    /\ backend = InitialBackend
    /\ now = FirstDay + 30 * TicksPerDay
    /\ \E n \in {9, 10, 12}, shape \in TrendShapes, second \in {"none", "ones", "rising"},
          ranged \in BOOLEAN :
          ret = [op |-> "input",
                 dataPoints |-> TrendLog(n, shape, second),
                 timeRange |-> IF ranged
                               THEN <<[start |-> now - 21, end |-> now]>>
                               ELSE <<>>]

AnalyzeLearningPatterns ==
    /\ ret.op = "input"
    /\ ret' = [op |-> "analyzeLearningPatterns",
               dataPoints |-> ret.dataPoints,
               timeRange |-> ret.timeRange,
               patterns |-> analyzeLearningPatterns(ret.dataPoints, ret.timeRange)]
    /\ UNCHANGED <<word_metrics, learning_data, now, hist, progress, backend>>

NextTrend == AnalyzeLearningPatterns

SpecTrend == InitTrend /\ [][NextTrend]_vars

----------------------------------------------------------------------------
(* SpecRepeat: the reviews of one word from its first interaction on, each
   schedule written back before the next review *)

MaxRepeats == 8    \* updateWordSchedule calls of the word

InitRepeat ==
    /\ now = 0
    /\ word_metrics = [i \in 1..1 |->
                          [word_id |-> "w1",
                           encounter_count |-> 1,
                           correct_count |-> 1,
                           incorrect_count |-> 0,
                           avg_response_time |-> 800,
                           first_seen |-> 0,
                           last_seen |-> 0,
                           confidence_score |-> Micro,
                           retention_estimate |-> Micro,
                           next_review_date |-> TicksPerDay,
                           spaced_repetition_data |-> <<>>]]
    /\ learning_data =
           <<[timestamp |-> 0, metric_type |-> "accuracy_rate", value |-> Micro,
              word_id |-> "w1"],
             [timestamp |-> 0, metric_type |-> "response_time", value |-> 800 * Micro,
              word_id |-> "w1"]>>
    /\ hist = [w \in Words |-> <<>>]
    /\ progress = InitialProgress
    /\ backend = InitialBackend
    /\ ret = NoCall

RepeatReview ==
    \E quality \in {1, 3, 5} :
        /\ Len(hist["w1"]) < MaxRepeats
        /\ UpdateWordSchedule("w1", quality, 800)

NextRepeat == RepeatReview

SpecRepeat == InitRepeat /\ [][NextRepeat]_vars

----------------------------------------------------------------------------
(* SpecLapse: reviews of a word with time passing between its interactions *)

MaxLapseReviews == 2 \* updateWordSchedule calls of the word

\* time passes after an interaction with the word
Lapse ==
    /\ now = word_metrics[1].last_seen
    /\ \E ticks \in {1, TicksPerDay, 10 * TicksPerDay} : now' = now + ticks
    /\ ret' = ret
    /\ UNCHANGED <<word_metrics, learning_data, hist, progress, backend>>

LapseReview ==
    \E quality \in {1, 3, 5} :
        /\ Len(hist["w1"]) < MaxLapseReviews
        /\ UpdateWordSchedule("w1", quality, 800)

NextLapse == Lapse \/ LapseReview

SpecLapse == InitRepeat /\ [][NextLapse]_vars

----------------------------------------------------------------------------
(* useSpacedRepetition: the review queue *)

\* getForgettingCurveModel(wordId) for a word that has an entry
getForgettingCurveModel(wordMetrics) ==
    calculateForgettingCurve(
        wordMetrics,
        SelectSeq(learning_data, LAMBDA ld : ld.word_id = wordMetrics.word_id))

\* the hook's predictReviewSuccess(wordId) for a word that has an entry
predictReviewSuccessOf(wordMetrics) ==
    predictReviewSuccess(getForgettingCurveModel(wordMetrics),
                         CeilDiv(now - wordMetrics.last_seen, TicksPerDay))

\* new Date(0): 1970-01-01, 19358 days before tick 0
Epoch == 0 - 19358 * TicksPerDay

\* priorityOrder[priority]
priorityOrder(priority) ==
    CASE priority = "urgent" -> 0
      [] priority = "due" -> 1
      [] priority = "optional" -> 2
      [] priority = "too_early" -> 3

\* the comparator of the queue's sort puts a before b or leaves them as they
\* are
QueueBefore(a, b) ==
    LET priorityDiff == priorityOrder(a.priority) - priorityOrder(b.priority)
    IN  IF priorityDiff # 0 THEN priorityDiff < 0
        ELSE b.days_overdue - a.days_overdue <= 0

RECURSIVE InsertIntoQueue(_, _)
InsertIntoQueue(sorted, x) ==
    IF sorted = <<>> THEN <<x>>
    ELSE IF QueueBefore(Head(sorted), x)
         THEN <<Head(sorted)>> \o InsertIntoQueue(Tail(sorted), x)
         ELSE <<x>> \o sorted

\* queue.sort(...): the sort is stable
RECURSIVE SortQueue(_)
SortQueue(queue) ==
    IF queue = <<>> THEN <<>>
    ELSE InsertIntoQueue(SortQueue(SubSeq(queue, 1, Len(queue) - 1)), queue[Len(queue)])

\* the item getReviewQueue pushes for an entry, <<>> when it pushes none
ReviewQueueItem(wordMetrics) ==
    LET prediction == predictReviewSuccessOf(wordMetrics)
        nextReviewDate ==
            IF wordMetrics.spaced_repetition_data # <<>>
            THEN wordMetrics.spaced_repetition_data[1].next_review_date
            ELSE Epoch
        daysSinceScheduled == CeilDiv(now - nextReviewDate, TicksPerDay)
    IN  IF prediction.review_priority = "too_early" THEN <<>>
        ELSE IF daysSinceScheduled >= 0 \/ prediction.review_priority = "urgent"
        THEN <<[word_id |-> wordMetrics.word_id,
                word_text |-> wordMetrics.word_id,
                category_id |-> "general",
                priority |-> prediction.review_priority,
                success_probability |-> prediction.success_probability,
                days_overdue |-> Max(0, daysSinceScheduled),
                predicted_difficulty |->
                    IF prediction.success_probability > 800000 THEN "easy"
                    ELSE IF prediction.success_probability > 600000 THEN "medium"
                    ELSE "hard",
                review_context |->
                    [last_accuracy |->
                         IF wordMetrics.encounter_count > 0
                         THEN Div(wordMetrics.correct_count, wordMetrics.encounter_count)
                         ELSE 0,
                     total_reviews |-> wordMetrics.encounter_count,
                     average_response_time |-> wordMetrics.avg_response_time,
                     forgetting_curve_stage |->
                         IF wordMetrics.confidence_score > 800000 THEN "maintenance"
                         ELSE IF wordMetrics.confidence_score > 500000 THEN "consolidation"
                         ELSE "acquisition"]]>>
        ELSE <<>>

RECURSIVE PushedItems(_)
PushedItems(metrics) ==
    IF metrics = <<>> THEN <<>>
    ELSE ReviewQueueItem(Head(metrics)) \o PushedItems(Tail(metrics))

\* getReviewQueue(maxItems)
getReviewQueue(maxItems) ==
    LET sorted == SortQueue(PushedItems(word_metrics))
    IN  SubSeq(sorted, 1, Min(maxItems, Len(sorted)))

----------------------------------------------------------------------------
(* SpecQueue: getReviewQueue on the stores that interactions and reviews of
   two words, with pauses between them, produce *)

MaxQueueOps == 2   \* interactions and reviews of a run

\* time passes after the last interaction
QueueLapse ==
    /\ word_metrics # <<>>
    /\ \E i \in 1..Len(word_metrics) : word_metrics[i].last_seen = now
    /\ \E ticks \in {12, 2 * TicksPerDay, 30 * TicksPerDay} : now' = now + ticks
    /\ ret' = NoCall
    /\ UNCHANGED <<word_metrics, learning_data, hist, progress, backend>>

QueueInteraction ==
    \E w \in Words, correct \in BOOLEAN :
        /\ Len(learning_data) < 2 * MaxQueueOps
        /\ RecordWordInteraction(w, correct, 800)

QueueReview ==
    \E w \in Words, quality \in {1, 5} :
        /\ Len(learning_data) < 2 * MaxQueueOps
        /\ UpdateWordSchedule(w, quality, 800)

GetReviewQueue ==
    /\ \E maxItems \in {1, 50} :
          ret' = [op |-> "getReviewQueue",
                  maxItems |-> maxItems,
                  at |-> now,
                  queue |-> getReviewQueue(maxItems)]
    /\ UNCHANGED <<word_metrics, learning_data, now, hist, progress, backend>>

NextQueue == QueueLapse \/ QueueInteraction \/ QueueReview \/ GetReviewQueue

SpecQueue == InitStore /\ [][NextQueue]_vars

----------------------------------------------------------------------------
(* useTemporalAnalytics: getTemporalInsights *)

\* the hook's analyzeTemporalPatterns({ min_confidence }): the engine's
\* patterns of at least that confidence, by confidence descending
analyzeTemporalPatternsWith(minConfidence) ==
    LET ByConfidence(patterns) ==
            LET keyed == [i \in 1..Len(patterns) |->
                             [key |-> patterns[i].confidence, pattern |-> patterns[i]]]
                sorted == SortByKeyDesc(keyed)
            IN  [i \in 1..Len(sorted) |-> sorted[i].pattern]
    IN  CHOOSE sorted \in
            {ByConfidence(patterns) :
                patterns \in {SelectSeq(analyzeTemporalPatterns(learning_data,
                                                                progress.study_sessions),
                                        LAMBDA p : p.confidence >= minConfidence)}} : TRUE

\* the first pattern of a type, <<>> for undefined
FindPattern(patterns, patternType) ==
    LET found == SelectSeq(patterns, LAMBDA p : p.pattern_type = patternType)
    IN  IF found = <<>> THEN <<>> ELSE <<found[1]>>

\* generateTemporalRecommendations(patterns, rhythm, momentum): the type,
\* priority and title of each recommendation
generateTemporalRecommendations(patterns, rhythm, momentum) ==
    LET microSessionPattern == FindPattern(patterns, "micro_sessions")
        bingePattern == FindPattern(patterns, "binge_learning")
        consistencyPattern == FindPattern(patterns, "consistency_pattern")
        recommendations ==
            (IF Len(rhythm.optimal_hours) > 0
             THEN <<[type |-> "timing", priority |-> "high",
                     title |-> "Optimize Your Study Schedule"]>>
             ELSE <<>>)
            \o (IF microSessionPattern # <<>> /\ microSessionPattern[1].confidence > 700000
                THEN <<[type |-> "duration", priority |-> "medium",
                        title |-> "Embrace Short Learning Bursts"]>>
                ELSE IF bingePattern # <<>> /\ bingePattern[1].confidence > 700000
                THEN <<[type |-> "duration", priority |-> "medium",
                        title |-> "Maximize Deep Learning Sessions"]>>
                ELSE <<>>)
            \o (IF momentum.momentum_direction = "declining" /\ momentum.plateau_risk > 700000
                THEN <<[type |-> "break", priority |-> "high",
                        title |-> "Take a Strategic Break"]>>
                ELSE IF momentum.momentum_direction = "building"
                THEN <<[type |-> "frequency", priority |-> "high",
                        title |-> "Maintain Your Learning Momentum"]>>
                ELSE <<>>)
            \o (IF consistencyPattern = <<>> \/ consistencyPattern[1].confidence < 600000
                THEN <<[type |-> "frequency", priority |-> "high",
                        title |-> "Build Learning Consistency"]>>
                ELSE <<>>)
    IN  SubSeq(recommendations, 1, Min(4, Len(recommendations)))

\* Math.min(...rhythm.optimal_hours): <<hour>>, and <<>> for the Infinity
\* that Math.min() of no argument is
MinimumHour(optimalHours) ==
    IF optimalHours = <<>> THEN <<>>
    ELSE <<MinOf(optimalHours)>>

\* predictOptimalSession(rhythm, momentum, studySessions): the prediction, or
\* the RangeError that toISOString() throws for the invalid date that
\* setHours(Infinity) leaves
predictOptimalSession(rhythm, momentum, studySessions) ==
    LET later == SelectSeq(rhythm.optimal_hours, LAMBDA hour : hour > getHours(now))
        nextOptimalHour ==
            IF later # <<>> /\ later[1] # 0 THEN <<later[1]>>
            ELSE MinimumHour(rhythm.optimal_hours)
        confidence ==
            Max(300000,
                Min(950000,
                    (rhythm.rhythm_strength * 8) \div 10
                        + (CASE momentum.momentum_direction = "building" -> 200000
                             [] momentum.momentum_direction = "declining" -> -100000
                             [] OTHER -> 0)))
        recentSessions == SliceLast(studySessions, 10)
        recommendedDuration ==
            IF Len(recentSessions) > 0
            THEN Max(10, Min(60, RoundDiv(SumSeq([i \in 1..Len(recentSessions) |->
                                                     recentSessions[i].duration_minutes]),
                                          Len(recentSessions))))
            ELSE 15
        performanceBoost ==
            RoundDiv(rhythm.peak_performance_window.performance_multiplier - Micro, 10000)
    IN  IF nextOptimalHour = <<>>
        THEN [threw |-> "RangeError"]
        ELSE [threw |-> "",
              recommended_time |->
                  IF nextOptimalHour[1] <= getHours(now)
                  THEN (getDate(now) + 1) * TicksPerDay + nextOptimalHour[1]
                  ELSE getDate(now) * TicksPerDay + nextOptimalHour[1],
              confidence |-> confidence,
              duration_minutes |-> recommendedDuration,
              performance_boost_estimate |-> performanceBoost]

\* getTemporalInsights(): the insights, or what predictOptimalSession threw;
\* patterns, rhythm and momentum are computed once
getTemporalInsights ==
    LET Insights(patterns, rhythm, momentum) ==
            LET recommendations ==
                    generateTemporalRecommendations(patterns, rhythm, momentum)
                nextOptimalSession ==
                    predictOptimalSession(rhythm, momentum, progress.study_sessions)
            IN  IF nextOptimalSession.threw # ""
                THEN [threw |-> nextOptimalSession.threw]
                ELSE [threw |-> "",
                      patterns |-> patterns,
                      rhythm |-> rhythm,
                      momentum |-> momentum,
                      recommendations |-> recommendations,
                      nextOptimalSession |-> nextOptimalSession]
    IN  CHOOSE insights \in
            {Insights(patterns, rhythm, momentum) :
                patterns \in {analyzeTemporalPatternsWith(600000)},
                rhythm \in {analyzeLearningRhythm(learning_data)},
                momentum \in {analyzeLearningMomentum(learning_data,
                                                      progress.study_sessions)}} : TRUE

----------------------------------------------------------------------------
(* SpecInsights: getTemporalInsights on stores with an empty log, a log with
   no hour of three events and logs with such hours *)

\* n sessions, one a day before now, of the given duration
InsightSessions(n, minutes) ==
    [i \in 1..n |-> [date |-> now - i * TicksPerDay, duration_minutes |-> minutes,
                     words_practiced |-> <<"w1">>, quiz_score |-> <<>>]]

InitInsights ==
    /\ word_metrics = <<>>
    /\ hist = [w \in Words |-> <<>>]
    /\ backend = InitialBackend
    /\ now \in {FirstDay + 3 * TicksPerDay + h : h \in {0, 2, 9, 23}}
    /\ \E qualifying \in {0, 1, 3, 5}, sparse \in 0..2,
          shape \in {"rising", "falling", "flat"} :
          learning_data = RhythmLog(qualifying, sparse, shape)
    /\ \E n \in {0, 2}, minutes \in {5, 25, 90} :
          progress = Merged(InitialProgress, [study_sessions |-> InsightSessions(n, minutes)])
    /\ ret = NoCall

GetTemporalInsights ==
    /\ ret.op = "none"
    /\ ret' = [op |-> "getTemporalInsights", at |-> now, insights |-> getTemporalInsights]
    /\ UNCHANGED <<word_metrics, learning_data, now, hist, progress, backend>>

NextInsights == GetTemporalInsights

SpecInsights == InitInsights /\ [][NextInsights]_vars

----------------------------------------------------------------------------
(* The server routes of SUPABASE_SPECIFICATION.md and syncWithBackend *)

\* PATCH /api/progress/words: without a row of the user .single() fails and
\* the route answers 500, which addLearnedWord only logs
ServedWords(server, request) ==
    IF server.row = <<>> THEN server
    ELSE LET words == server.row[1].learned_words
             updatedWords ==
                 IF request.action = "add"
                    /\ \A i \in 1..Len(words) : words[i] # request.wordId
                 THEN Append(words, request.wordId)
                 ELSE IF request.action = "remove"
                 THEN SelectSeq(words, LAMBDA id : id # request.wordId)
                 ELSE words
         IN  [server EXCEPT !.row = <<[@[1] EXCEPT !.learned_words = updatedWords]>>]

\* PATCH /api/progress/xp
ServedXp(server, request) ==
    IF server.row = <<>> THEN server
    ELSE LET newXP == server.row[1].experience_points + request.points
         IN  [server EXCEPT !.row = <<[@[1] EXCEPT !.experience_points = newXP,
                                                   !.current_level = calculateLevel(newXP)]>>]

\* POST /api/sessions: one more row, dated by the server
ServedSession(server, request) ==
    [server EXCEPT !.sessions =
        Append(@, [date |-> now,
                   duration_minutes |-> request.sessionData.duration_minutes,
                   words_practiced |-> request.sessionData.words_practiced,
                   quiz_score |-> request.sessionData.quiz_score])]

\* POST /api/progress/sync: the uploaded progress replaces the row and the
\* uploaded sessions are inserted
ServedUpload(server, body) ==
    [row |-> <<body.progress>>,
     sessions |-> server.sessions \o body.sessions]

\* .order('session_date', { ascending: false }).limit(1000)
LatestSessions(sessions) ==
    LET keyed == [i \in 1..Len(sessions) |->
                     [key |-> sessions[i].date, session |-> sessions[i]]]
        sorted == SortByKeyDesc(keyed)
        latest == SubSeq(sorted, 1, Min(1000, Len(sorted)))
    IN  [i \in 1..Len(latest) |-> latest[i].session]

\* GET /api/progress/sync: the response, for a server that has the row
ServedDownload(server) ==
    [progress |-> [learnedWords |-> server.row[1].learned_words,
                   currentLevel |-> server.row[1].current_level,
                   experiencePoints |-> server.row[1].experience_points,
                   streakDays |-> server.row[1].streak_days,
                   lastStudyDate |-> server.row[1].last_study_date],
     sessions |-> LatestSessions(server.sessions)]

\* the server handles one of the requests on their way, in any order
ServeRequest ==
    \E i \in 1..Len(backend.requests) :
        LET request == backend.requests[i]
            rest == SubSeq(backend.requests, 1, i - 1)
                        \o SubSeq(backend.requests, i + 1, Len(backend.requests))
            served == CASE request.url = "/api/progress/words" ->
                               ServedWords(backend.server, request)
                        [] request.url = "/api/progress/xp" ->
                               ServedXp(backend.server, request)
                        [] OTHER -> ServedSession(backend.server, request)
        IN  /\ backend' = [backend EXCEPT !.server = served, !.requests = rest]
            /\ UNCHANGED <<word_metrics, learning_data, now, hist, ret, progress>>

\* syncWithBackend() up to its first await: state = get(), syncStatus is
\* 'syncing' and the upload of state is on its way
SyncWithBackend ==
    /\ backend.sync = <<>>
    /\ LET state == progress
           body == [progress |-> [learned_words |-> state.learned_words,
                                  current_level |-> state.current_level,
                                  experience_points |-> state.experience_points,
                                  streak_days |-> state.streak_days,
                                  last_study_date |-> state.last_study_date],
                    sessions |-> state.study_sessions]
       IN  /\ progress' = Merged(progress, [syncStatus |-> "syncing"])
           /\ backend' = [backend EXCEPT
                             !.sync = <<[pc |-> "upload", body |-> body]>>]
    /\ ret' = NoCall
    /\ UNCHANGED <<word_metrics, learning_data, now, hist>>

\* the server handles the upload; the awaiting syncWithBackend goes on and
\* the GET is on its way
SyncUploaded ==
    /\ backend.sync # <<>>
    /\ backend.sync[1].pc = "upload"
    /\ backend' = [backend EXCEPT
                      !.server = ServedUpload(@, backend.sync[1].body),
                      !.sync = <<[@[1] EXCEPT !.pc = "download"]>>]
    /\ UNCHANGED <<word_metrics, learning_data, now, hist, ret, progress>>

\* the server handles the GET: the response is on its way
SyncDownloaded ==
    /\ backend.sync # <<>>
    /\ backend.sync[1].pc = "download"
    /\ backend.server.row # <<>>
    /\ backend' = [backend EXCEPT
                      !.sync = <<[pc |-> "merge", body |-> @[1].body,
                                  serverData |-> ServedDownload(backend.server)]>>]
    /\ UNCHANGED <<word_metrics, learning_data, now, hist, ret, progress>>

\* the response arrives: "Merge server data with local state"
SyncMerge ==
    /\ backend.sync # <<>>
    /\ backend.sync[1].pc = "merge"
    /\ LET serverData == backend.sync[1].serverData
       IN  progress' =
               Merged(progress,
                      [learned_words |-> serverData.progress.learnedWords,
                       current_level |-> IF serverData.progress.currentLevel = 0 THEN 1
                                         ELSE serverData.progress.currentLevel,
                       experience_points |-> serverData.progress.experiencePoints,
                       streak_days |-> serverData.progress.streakDays,
                       last_study_date |-> serverData.progress.lastStudyDate,
                       study_sessions |-> serverData.sessions,
                       syncStatus |-> "idle",
                       lastSyncTime |-> <<now>>])
    /\ backend' = [backend EXCEPT !.sync = <<>>]
    /\ ret' = [op |-> "syncWithBackend", threw |-> FALSE]
    /\ UNCHANGED <<word_metrics, learning_data, now, hist>>

\* an apiCall of the sync throws (the fetch fails or the response is not ok):
\* catch sets syncStatus to 'error' and rethrows
SyncFail ==
    /\ backend.sync # <<>>
    /\ backend.sync[1].pc \in {"upload", "download"}
    /\ progress' = Merged(progress, [syncStatus |-> "error"])
    /\ backend' = [backend EXCEPT !.sync = <<>>]
    /\ ret' = [op |-> "syncWithBackend", threw |-> TRUE]
    /\ UNCHANGED <<word_metrics, learning_data, now, hist>>

----------------------------------------------------------------------------
(* SpecSync: addLearnedWord, addExperiencePoints and addStudySession before
   and while syncWithBackend runs, with the server handling the requests in
   any order *)

MaxSyncLoad == 3

\* what the store, the server and the network hold
SyncLoad ==
    Len(progress.learned_words) + progress.experience_points \div 10
        + Len(progress.study_sessions) + Len(backend.requests)
        + Len(backend.server.sessions)

SyncAddLearnedWord ==
    /\ SyncLoad < MaxSyncLoad
    /\ \E wordId \in Words : AddLearnedWord(wordId)

SyncAddExperiencePoints ==
    /\ SyncLoad < MaxSyncLoad
    /\ AddExperiencePoints(10)

SyncAddStudySession ==
    /\ SyncLoad < MaxSyncLoad
    /\ \E sessionData \in SessionInputs : AddStudySession(sessionData)

SyncStart ==
    /\ SyncLoad < MaxSyncLoad
    /\ SyncWithBackend

NextSync ==
    \/ SyncAddLearnedWord
    \/ SyncAddExperiencePoints
    \/ SyncAddStudySession
    \/ ServeRequest
    \/ SyncStart
    \/ SyncUploaded
    \/ SyncDownloaded
    \/ SyncMerge
    \/ SyncFail

SpecSync == InitStore /\ [][NextSync]_vars

----------------------------------------------------------------------------
(* Claims *)

Reviewed == ret.op = "updateWordSchedule"
Modelled == ret.op = "calculateForgettingCurve"
Predicted == ret.op = "predictReviewSuccess"

\* C1: every schedule generateSpacedRepetitionSchedule returns, for any stored
\* state (none included), any quality and after any sequence of written-back
\* reviews, has 1 <= interval_days <= 365 and ease_factor >= 1.3.
C1_ScheduleWithinBounds ==
    Reviewed =>
        /\ 1 <= ret.schedule.interval_days
        /\ ret.schedule.interval_days <= 365
        /\ ret.schedule.ease_factor >= 130

\* a successful review whose raw interval exceeds 365 days and whose raw ease
\* factor falls below 1.3: both clamps act
C1_Witness ==
    /\ Reviewed
    /\ ret.prior # <<>>
    /\ ret.quality = 3
    /\ ret.prior[1].repetition_number >= 2
    /\ ret.prior[1].next_interval * ret.prior[1].ease_factor > 36500
    /\ ret.prior[1].ease_factor - 14 < 130
    /\ ret.schedule.interval_days = 365
    /\ ret.schedule.ease_factor = 130

C3_SecondSuccessIsSix ==
    (Reviewed /\ ret.quality >= 3 /\ ret.schedule.repetition_number = 2) =>
        ret.schedule.interval_days = 6

\* a second success on a stored interval of 100 days and ease factor 4.0
C3_Witness ==
    /\ Reviewed
    /\ ret.quality >= 3
    /\ ret.schedule.repetition_number = 2
    /\ ret.prior[1].next_interval = 100
    /\ ret.prior[1].ease_factor = 400

\* the spaced-repetition state the store holds for a word
StoredSchedule(w) == FindMetrics(word_metrics, w)[1].spaced_repetition_data

\* C4: from an item without spaced-repetition state, a first review with
\* quality 5 yields interval 1, ease 2.5, repetition 1; once written back, a
\* second review with quality 5 yields interval 6, ease 2.6, repetition 2.
C4_TwoPerfectReviews ==
    \A w \in Words :
        /\ hist[w] = <<5>> =>
              /\ StoredSchedule(w) # <<>>
              /\ StoredSchedule(w)[1].next_interval = 1
              /\ StoredSchedule(w)[1].ease_factor = 250
              /\ StoredSchedule(w)[1].repetition_number = 1
              /\ (Reviewed /\ ret.word_id = w) =>
                    /\ ret.prior = <<>>
                    /\ ret.schedule.interval_days = 1
                    /\ ret.schedule.ease_factor = 250
                    /\ ret.schedule.repetition_number = 1
        /\ hist[w] = <<5, 5>> =>
              /\ StoredSchedule(w) # <<>>
              /\ StoredSchedule(w)[1].next_interval = 6
              /\ StoredSchedule(w)[1].ease_factor = 260
              /\ StoredSchedule(w)[1].repetition_number = 2
              /\ (Reviewed /\ ret.word_id = w) =>
                    /\ ret.schedule.interval_days = 6
                    /\ ret.schedule.ease_factor = 260
                    /\ ret.schedule.repetition_number = 2

\* the second of two reviews with quality 5 has just returned
C4_Witness ==
    \E w \in Words : hist[w] = <<5, 5>> /\ Reviewed /\ ret.word_id = w

\* C5: for quality q >= 3 on a stored repetition_number >= 2 the schedule has
\* interval_days = clamp(round(stored interval * stored ease), 1, 365),
\* ease_factor = max(1.3, stored ease + 0.1 - (5-q)*(0.08 + (5-q)*0.02)) and
\* repetition_number = stored + 1; the interval uses the ease factor as stored.
C5_Recurrence ==
    (Reviewed /\ ret.quality >= 3 /\ ret.prior # <<>>
        /\ ret.prior[1].repetition_number >= 2) =>
        LET old == ret.prior[1]
            raw == (old.next_interval * old.ease_factor + 50) \div 100
            delta == CASE ret.quality = 5 -> 10
                       [] ret.quality = 4 -> 0
                       [] ret.quality = 3 -> -14
        IN  /\ ret.schedule.interval_days =
                   (IF raw > 365 THEN 365 ELSE IF raw < 1 THEN 1 ELSE raw)
            /\ ret.schedule.ease_factor =
                   (IF old.ease_factor + delta < 130 THEN 130
                    ELSE old.ease_factor + delta)
            /\ ret.schedule.repetition_number = old.repetition_number + 1

\* a success on (interval 6, ease 2.6, repetition 2), reached by two perfect
\* reviews: 6 * 2.6 = 15.6 rounds to 16, and 6 * 2.7 would not differ, while
\* the ease factor moves
C5_Witness ==
    /\ Reviewed
    /\ ret.quality = 3
    /\ ret.prior # <<>>
    /\ ret.prior[1].repetition_number = 2
    /\ ret.prior[1].next_interval = 6
    /\ ret.prior[1].ease_factor = 260
    /\ ret.schedule.interval_days = 16
    /\ ret.schedule.ease_factor = 246

\* the events of the supplied log that name the word
Matching(wordId, log) == SelectSeq(log, LAMBDA dp : dp.word_id = wordId)

\* C6: calculateForgettingCurve for an item that no event of the supplied log
\* names returns initial_strength 0.3, decay_rate 0.1, stability_factor 0.5,
\* retrieval_strength 0.3, optimal_interval 1, confidence_level 0.2.
C6_DefaultModel ==
    (Modelled /\ Matching(ret.wordMetrics.word_id, ret.reviewHistory) = <<>>) =>
        /\ ret.model.word_id = ret.wordMetrics.word_id
        /\ ret.model.initial_strength = 300000
        /\ ret.model.decay_rate = 100000
        /\ ret.model.stability_factor = 500000
        /\ ret.model.retrieval_strength = 300000
        /\ ret.model.optimal_interval = 1
        /\ ret.model.confidence_level = 200000

\* the model of a studied item over a log that holds only another item's events
C6_Witness ==
    /\ Modelled
    /\ ret.reviewHistory # <<>>
    /\ Matching(ret.wordMetrics.word_id, ret.reviewHistory) = <<>>
    /\ ret.wordMetrics.encounter_count >= 1

\* C7 as stated: two consecutive calls of calculateForgettingCurve with the
\* same metrics and the same log return the same model, whatever time passed
\* between them.
C7_SameInputsSameModel ==
    [][(Modelled /\ ret'.op = "calculateForgettingCurve"
          /\ ret'.wordMetrics = ret.wordMetrics
          /\ ret'.reviewHistory = ret.reviewHistory)
        => ret'.model = ret.model]_vars

\* C8 as stated: getForgettingCurveInsights returns a number for
\* average_retention on every input, the empty metrics collection included.
C8_AverageRetentionDefined ==
    ret.op = "getForgettingCurveInsights" => ret.insights.average_retention # NaN

\* C9: for every model calculateForgettingCurve produces and every number of
\* days >= 0, the success_probability predictReviewSuccess returns is in
\* [0, 0.95].
C9_ProbabilityInRange ==
    Predicted =>
        /\ ret.prediction.success_probability >= 0
        /\ ret.prediction.success_probability <= 950000

\* a prediction whose retention plus stability bonus exceeds 0.95: the cap acts
C9_Witness ==
    /\ Predicted
    /\ ret.model.retrieval_strength + ret.model.stability_factor \div 5 > 950000
    /\ ret.daysSinceLastReview = 0
    /\ ret.prediction.success_probability = 950000

\* the rule order of C10 applied to a probability p
PriorityRule(p, days, optimalInterval) ==
    IF p < 500000 THEN "urgent"
    ELSE IF days >= optimalInterval THEN "due"
    ELSE IF 10 * days >= 8 * optimalInterval THEN "optional"
    ELSE "too_early"

\* C10 as stated, on the success_probability of the returned prediction: the
\* priority follows the rule order, so a returned probability >= 0.5 is never
\* urgent.
C10_PriorityOfReturnedProbability ==
    Predicted =>
        ret.prediction.review_priority =
            PriorityRule(ret.prediction.success_probability,
                         ret.daysSinceLastReview, ret.model.optimal_interval)

\* C10 amended: the priority follows the rule order on the probability before
\* it is rounded to four decimals for the result; the returned
\* success_probability is within 0.00005 of it, so an urgent item returns at
\* most 0.5 and any other item at least 0.5.
C10_PriorityOfExactProbability ==
    Predicted =>
        LET p == SuccessProbability(ret.model, ret.daysSinceLastReview)
            returned == ret.prediction.success_probability
        IN  /\ ret.prediction.review_priority =
                   PriorityRule(p, ret.daysSinceLastReview,
                                ret.model.optimal_interval)
            /\ returned - p <= 50
            /\ p - returned <= 50
            /\ ret.prediction.review_priority = "urgent" => returned <= 500000
            /\ ret.prediction.review_priority # "urgent" => returned >= 500000

\* an urgent item that is not yet due by its interval
C10_Witness ==
    /\ Predicted
    /\ ret.prediction.review_priority = "urgent"
    /\ ret.prediction.success_probability < 500000
    /\ ret.daysSinceLastReview < ret.model.optimal_interval

Analyzed == ret.op = "analyzeTemporalPatterns"

\* the patterns of one type in a list of patterns
OfType(patterns, type) == SelectSeq(patterns, LAMBDA x : x.pattern_type = type)

\* C11: analyzeTemporalPatterns returns the empty list whenever the event log
\* has fewer than 50 events, whatever the events and the sessions are.
C11_FewEventsNoPatterns ==
    (Analyzed /\ Len(ret.learningData) < 50) => ret.patterns = <<>>

\* 49 events with 20 sessions that are all micro sessions: the session
\* detector alone would report a pattern
C11_Witness ==
    /\ Analyzed
    /\ Len(ret.learningData) = 49
    /\ Len(ret.studySessions) = 20
    /\ \A i \in 1..20 : ret.studySessions[i].duration_minutes <= 5
    /\ analyzeSessionPatterns(ret.studySessions) # <<>>
    /\ ret.patterns = <<>>

\* C12: every pattern analyzeTemporalPatterns returns has confidence >= 0.7.
C12_ReturnedAreConfident ==
    Analyzed =>
        \A i \in 1..Len(ret.patterns) : ret.patterns[i].confidence >= 700000

\* a log of at least 50 events in which the daily-rhythm detector finds a
\* rhythm of confidence between 0.6 and 0.7 and the weekly detector a cycle
\* below 0.7 in another, while a pattern of higher confidence is returned
C12_Witness ==
    /\ Analyzed
    /\ Len(ret.learningData) >= 50
    /\ \/ \E x \in {analyzeDailyRhythms(ret.learningData)} :
              x # <<>> /\ x[1].confidence >= 600000 /\ x[1].confidence < 700000
       \/ \E x \in {analyzeWeeklyCycles(ret.learningData)} :
              x # <<>> /\ x[1].confidence < 700000
    /\ OfType(ret.patterns, "daily_rhythm") = <<>>
    /\ OfType(ret.patterns, "weekly_cycle") = <<>>
    /\ ret.patterns # <<>>

\* the sessions of at most 5 minutes, and of at least 30
MicroSessionsOf(sessions) == SelectSeq(sessions, LAMBDA x : x.duration_minutes <= 5)
BingeSessionsOf(sessions) == SelectSeq(sessions, LAMBDA x : x.duration_minutes >= 30)

\* C13 as stated: with at least 50 events, a micro_sessions pattern is
\* reported whenever more than 40% of the sessions last <= 5 minutes and a
\* binge_learning pattern whenever more than 15% last >= 30 minutes, whatever
\* the number of sessions.
C13_SessionShapesAnyCount ==
    (Analyzed /\ Len(ret.learningData) >= 50) =>
        LET n == Len(ret.studySessions)
        IN  /\ 10 * Len(MicroSessionsOf(ret.studySessions)) > 4 * n
                  => OfType(ret.patterns, "micro_sessions") # <<>>
            /\ 100 * Len(BingeSessionsOf(ret.studySessions)) > 15 * n
                  => OfType(ret.patterns, "binge_learning") # <<>>

\* C13 amended: with at least 50 events and at least 20 sessions, a
\* micro_sessions pattern is reported exactly when more than 40% of the
\* sessions last <= 5 minutes and a binge_learning pattern exactly when more
\* than 15% last >= 30 minutes; with fewer than 20 sessions neither is.
C13_SessionShapesFromTwenty ==
    (Analyzed /\ Len(ret.learningData) >= 50) =>
        LET n == Len(ret.studySessions)
        IN  /\ n >= 20 =>
                  /\ 10 * Len(MicroSessionsOf(ret.studySessions)) > 4 * n
                        <=> OfType(ret.patterns, "micro_sessions") # <<>>
                  /\ 100 * Len(BingeSessionsOf(ret.studySessions)) > 15 * n
                        <=> OfType(ret.patterns, "binge_learning") # <<>>
            /\ n < 20 =>
                  /\ OfType(ret.patterns, "micro_sessions") = <<>>
                  /\ OfType(ret.patterns, "binge_learning") = <<>>

\* 20 sessions of which 9 (45%) are micro and 4 (20%) are binge sessions:
\* both patterns are reported
C13_Witness ==
    /\ Analyzed
    /\ Len(ret.learningData) >= 50
    /\ Len(ret.studySessions) = 20
    /\ Len(MicroSessionsOf(ret.studySessions)) = 9
    /\ Len(BingeSessionsOf(ret.studySessions)) = 4
    /\ OfType(ret.patterns, "micro_sessions") # <<>>
    /\ OfType(ret.patterns, "binge_learning") # <<>>

Aggregated == ret.op = "aggregateDataByPeriod"

\* the values of the events of the requested kind whose timestamp maps to the
\* period key of bucket b, in log order
BucketValues(b) ==
    LET points == SelectSeq(ret.dataPoints,
                            LAMBDA e : /\ e.metric_type = ret.metricType
                                       /\ getPeriodKey(e.timestamp, ret.period) = b.period)
    IN  [i \in 1..Len(points) |-> points[i].value]

\* C14: in every bucket returned by aggregateDataByPeriod, count is the
\* number of events of the requested kind whose timestamp maps to the
\* bucket's period key, sum is the sum of their values, min and max are the
\* least and the greatest of them, average is their mean to four decimals,
\* and std_deviation is, to four decimals, the square root of the mean of
\* their squares minus the square of their mean (the population standard
\* deviation); a bucket holding 2, 4, 6 has mean 4, min 2, max 6 and
\* standard deviation 1.633.
C14_BucketStatistics ==
    Aggregated =>
        \A k \in 1..Len(ret.aggregates) :
            LET b == ret.aggregates[k]
                values == BucketValues(b)
                n == Len(values)
                squares == [i \in 1..n |-> Mul(values[i], values[i])]
                mean == SumSeq(values) \div n
                variance == SumSeq(squares) \div n - Mul(mean, mean)
            IN  /\ n > 0
                /\ b.count = n
                /\ b.sum = SumSeq(values)
                /\ \E i \in 1..n : b.min = values[i]
                /\ \E i \in 1..n : b.max = values[i]
                /\ \A i \in 1..n : b.min <= values[i] /\ values[i] <= b.max
                /\ Abs(b.average * n - SumSeq(values)) <= 50 * n
                /\ b.std_deviation >= 0
                /\ Mul(Max(0, b.std_deviation - 100), Max(0, b.std_deviation - 100))
                       <= variance + 10
                /\ variance <= Mul(b.std_deviation + 100, b.std_deviation + 100) + 10
                /\ (n = 3 /\ {values[i] : i \in 1..n} = {2 * Micro, 4 * Micro, 6 * Micro})
                       => /\ b.average = 4 * Micro
                          /\ b.min = 2 * Micro
                          /\ b.max = 6 * Micro
                          /\ b.std_deviation = 1633000

\* a week bucket that holds the values 2, 4, 6 of three events, one of them on
\* another day than the other two, with standard deviation 1.633
C14_Witness ==
    /\ Aggregated
    /\ ret.period = "week"
    /\ Len(ret.aggregates) = 1
    /\ ret.aggregates[1].count = 3
    /\ ret.aggregates[1].sum = 12 * Micro
    /\ ret.aggregates[1].std_deviation = 1633000
    /\ \E i, j \in 1..Len(ret.dataPoints) :
           getDate(ret.dataPoints[i].timestamp) # getDate(ret.dataPoints[j].timestamp)

\* C15: the buckets returned by aggregateDataByPeriod have pairwise distinct
\* period keys in strictly ascending key order; their counts sum to the
\* number of events of the requested kind in the log, every such event's
\* period key being the key of exactly one bucket, and every bucket's key
\* being the key of such an event; an empty log or one with no event of the
\* kind gives the empty list.
C15_BucketsAscendingAndComplete ==
    Aggregated =>
        LET buckets == ret.aggregates
            ofKind == SelectSeq(ret.dataPoints,
                                LAMBDA e : e.metric_type = ret.metricType)
        IN  /\ \A i, j \in 1..Len(buckets) :
                   i < j => /\ buckets[i].period # buckets[j].period
                            /\ KeyBefore(buckets[i].period, buckets[j].period)
            /\ SumSeq([k \in 1..Len(buckets) |-> buckets[k].count]) = Len(ofKind)
            /\ \A i \in 1..Len(ofKind) :
                   Cardinality({k \in 1..Len(buckets) :
                                   buckets[k].period
                                       = getPeriodKey(ofKind[i].timestamp, ret.period)}) = 1
            /\ \A k \in 1..Len(buckets) :
                   \E i \in 1..Len(ofKind) :
                       buckets[k].period = getPeriodKey(ofKind[i].timestamp, ret.period)
            /\ ofKind = <<>> => buckets = <<>>

\* a log whose events of the requested kind are not in time order and fall
\* into different days, beside an event of another kind: two day buckets
C15_Witness ==
    /\ Aggregated
    /\ ret.period = "day"
    /\ Len(ret.dataPoints) = 3
    /\ Len(ret.aggregates) = 2
    /\ ret.dataPoints[1].metric_type = ret.metricType
    /\ ret.dataPoints[2].metric_type # ret.metricType
    /\ ret.dataPoints[3].metric_type = ret.metricType
    /\ ret.dataPoints[3].timestamp < ret.dataPoints[1].timestamp

Correlated == ret.op = "calculateMetricCorrelations"

\* the events of a kind in the log handed to calculateMetricCorrelations
EventsOfKind(kind) == SelectSeq(ret.dataPoints, LAMBDA d : d.metric_type = kind)

\* the hours in which both kinds have events
SharedHours(kind1, kind2) ==
    {EventsOfKind(kind1)[i].timestamp : i \in 1..Len(EventsOfKind(kind1))}
        \cap {EventsOfKind(kind2)[i].timestamp : i \in 1..Len(EventsOfKind(kind2))}

\* six times the mean of the values of a kind in an hour
SixMeans(kind, hour) ==
    LET points == SelectSeq(EventsOfKind(kind), LAMBDA d : d.timestamp = hour)
    IN  (6 * SumSeq([i \in 1..Len(points) |-> points[i].value \div Micro]))
            \div Len(points)

\* both kinds have at least 5 events and share at least 3 hours, and over the
\* shared hours the hourly means satisfy y = a * x + b with a of the given
\* sign, x not being constant
LinearlyRelated(kindX, kindY, sign) ==
    /\ Len(EventsOfKind(kindX)) >= 5
    /\ Len(EventsOfKind(kindY)) >= 5
    /\ Cardinality(SharedHours(kindX, kindY)) >= 3
    /\ \E h1, h2 \in SharedHours(kindX, kindY) : SixMeans(kindX, h1) # SixMeans(kindX, h2)
    /\ \E a \in {1, 2}, b \in -6..6 :
           \A h \in SharedHours(kindX, kindY) :
               SixMeans(kindY, h) = sign * a * SixMeans(kindX, h) + 6 * b

\* C16 as stated: for two metric kinds that each have at least 5 events and
\* share at least 3 hours, whose hourly means are related by y = a * x + b with
\* a # 0 and x not constant, calculateMetricCorrelations reports a correlation
\* within 0.001 of +1 when a > 0 and within 0.001 of -1 when a < 0.
C16_LinearGivesUnitCorrelation ==
    Correlated =>
        \A sign \in {-1, 1} :
            LinearlyRelated("response_time", "session_duration", sign) =>
                /\ Len(ret.correlations) = 1
                /\ Abs(ret.correlations[1].correlation - sign * Micro) <= 1000

Consolidated == ret.op = "analyzeMemoryConsolidation"

\* C17 as stated: analyzeMemoryConsolidation returns a non-empty
\* consolidation_activities list whenever consolidation_score < 0.7 or
\* interference_risk > 0.6, that is whenever retrieval_practice_needed is true.
C17_ActivitiesWheneverPracticeNeeded ==
    Consolidated =>
        ((ret.consolidation.consolidation_score < 700000
              \/ ret.consolidation.interference_risk > 600000
              \/ ret.consolidation.retrieval_practice_needed)
            => ret.consolidation.consolidation_activities # <<>>)

\* C17 amended: analyzeMemoryConsolidation returns a non-empty
\* consolidation_activities list exactly when consolidation_score < 0.5 or
\* interference_risk > 0.6 or the item's confidence_score < 0.6 (a review, a
\* context and a test activity respectively, each at most once, in
\* descending priority); retrieval_practice_needed is true exactly when
\* consolidation_score < 0.7 or interference_risk > 0.6.
C17_ActivitiesByTheirOwnThresholds ==
    Consolidated =>
        LET c == ret.consolidation
            types == [i \in 1..Len(c.consolidation_activities) |->
                         c.consolidation_activities[i].activity_type]
            emitted(type) == \E i \in 1..Len(types) : types[i] = type
        IN  /\ emitted("review") <=> c.consolidation_score < 500000
            /\ emitted("context") <=> c.interference_risk > 600000
            /\ emitted("test") <=> ret.wordMetrics.confidence_score < 600000
            /\ \A i, j \in 1..Len(types) :
                   i < j => /\ types[i] # types[j]
                            /\ c.consolidation_activities[i].priority
                                   > c.consolidation_activities[j].priority
            /\ \A i \in 1..Len(types) : types[i] \in {"review", "context", "test"}
            /\ c.retrieval_practice_needed
                   <=> (c.consolidation_score < 700000 \/ c.interference_risk > 600000)

\* an item answered correctly every time, of full confidence, with no recent
\* session: its score is between 0.5 and 0.7, retrieval practice is needed
\* and no activity is suggested
C17_Witness ==
    /\ Consolidated
    /\ ret.wordMetrics.correct_count = 3
    /\ ret.recentSessions = <<>>
    /\ ret.consolidation.consolidation_score >= 500000
    /\ ret.consolidation.consolidation_score < 700000
    /\ ret.consolidation.retrieval_practice_needed
    /\ ret.consolidation.consolidation_activities = <<>>

\* C18 as stated: the session-frequency term of consolidation_score grows
\* with the number of recent sessions up to 10 sessions, where it contributes
\* 0.30, so an item with accuracy 1 and at least 10 recent sessions has
\* consolidation_score >= 0.9.
C18_TenSessionsGiveNineTenths ==
    Consolidated =>
        ((/\ ret.wordMetrics.encounter_count > 0
          /\ ret.wordMetrics.correct_count = ret.wordMetrics.encounter_count
          /\ Len(ret.recentSessions) >= 10)
            => ret.consolidation.consolidation_score >= 900000)

RhythmAnalyzed == ret.op = "analyzeLearningRhythm"

\* the hours of the day with at least 3 events in the log
QualifyingHours ==
    {h \in 0..23 :
        Cardinality({i \in 1..Len(ret.learningData) :
                        getHours(ret.learningData[i].timestamp) = h}) >= 3}

\* how often hour h occurs in a list of hours
Occurrences(hours, h) == Cardinality({i \in 1..Len(hours) : hours[i] = h})

\* C19 as stated: in the energy_decline_pattern of analyzeLearningRhythm,
\* peak_hours, recovery_hours and decline_hours partition the hours with at
\* least 3 samples: every such hour is in exactly one of the three lists,
\* once, and no other hour is in any, for any number of such hours from 0 to
\* 24.
C19_EnergyPatternPartitions ==
    RhythmAnalyzed =>
        LET e == ret.rhythm.energy_decline_pattern
            all == e.peak_hours \o e.recovery_hours \o e.decline_hours
        IN  /\ \A h \in QualifyingHours : Occurrences(all, h) = 1
            /\ \A i \in 1..Len(all) : all[i] \in QualifyingHours

MomentumAnalyzed == ret.op = "analyzeLearningMomentum"

\* the calendar days that hold a session dated within the 14 days (14 * 24
\* hours) up to now
DaysInWindow ==
    {getDate(ret.studySessions[i].date) :
        i \in {j \in 1..Len(ret.studySessions) :
                  /\ ret.studySessions[j].date >= now - 14 * TicksPerDay
                  /\ ret.studySessions[j].date <= now}}

\* C20 as stated: current_streak_strength of analyzeLearningMomentum is the
\* number of distinct days holding a session within the 14-day window divided
\* by 14, and lies in [0, 1], for any session timestamps and any current time
\* of day.
C20_StreakStrengthIsFraction ==
    MomentumAnalyzed =>
        /\ ret.momentum.current_streak_strength = Div(Cardinality(DaysInWindow), 14)
        /\ ret.momentum.current_streak_strength >= 0
        /\ ret.momentum.current_streak_strength <= Micro

\* the events of the log before a step are, after it, still there in the same
\* order, but for the oldest ones pushed out by the added events once the log
\* is over the cap; added is the number of events the step records
KeepsLog(added) ==
    LET len == Len(learning_data)
        dropped == Max(0, len + added - MAX_LEARNING_DATA_POINTS)
    IN  /\ Len(learning_data') = len + added - dropped
        /\ SubSeq(learning_data', 1, len - dropped) = SubSeq(learning_data, dropped + 1, len)
        /\ \A i \in (len - dropped + 1)..Len(learning_data') :
              learning_data'[i].timestamp = now

\* C21: learning_data never holds more than 10,000 events, and every step
\* other than resetProgress keeps the events already recorded in their order,
\* appends the new ones at the end and drops only the oldest ones, and only
\* when the log is over the cap; recordLearningData(metricType, value) leaves
\* its event as the last one of the log
C21_LogIsTheMostRecentEvents ==
    /\ [](Len(learning_data) <= MAX_LEARNING_DATA_POINTS)
    /\ [][/\ \/ ret'.op = "resetProgress" /\ learning_data' = <<>>
             \/ \E added \in 0..3 : KeepsLog(added)
          /\ (ret'.op = "recordLearningData" /\ ret' # ret) =>
                /\ KeepsLog(1)
                /\ learning_data'[Len(learning_data')] =
                       [timestamp |-> now, metric_type |-> ret'.metric_type,
                        value |-> ret'.value, word_id |-> ""]]_vars

\* the log is full, its oldest events are gone and its last events are the
\* run's
C21_Witness ==
    /\ Len(learning_data) = MAX_LEARNING_DATA_POINTS
    /\ learning_data[1].timestamp = 0
    /\ learning_data[1].value > 1
    /\ learning_data[Len(learning_data)].timestamp = 1

\* the words that have an entry in word_metrics
TrackedWords == {word_metrics[i].word_id : i \in 1..Len(word_metrics)}

\* C22: after any sequence of recordWordInteraction and updateWordSchedule
\* calls word_metrics has at most one entry per word_id, every entry has
\* encounter_count = correct_count + incorrect_count >= 1 and
\* confidence_score = correct_count / encounter_count within [0, 1], the first
\* interaction with a word creates its entry, and no call removes an entry
C22_OneConsistentEntryPerWord ==
    /\ [](/\ \A i, j \in 1..Len(word_metrics) :
                word_metrics[i].word_id = word_metrics[j].word_id => i = j
          /\ \A i \in 1..Len(word_metrics) :
                LET m == word_metrics[i]
                IN  /\ m.encounter_count = m.correct_count + m.incorrect_count
                    /\ m.encounter_count >= 1
                    /\ m.confidence_score = (m.correct_count * Micro) \div m.encounter_count
                    /\ m.confidence_score >= 0
                    /\ m.confidence_score <= Micro
          /\ \A w \in Words :
                (\E i \in 1..Len(learning_data) : learning_data[i].word_id = w)
                    => w \in TrackedWords)
    /\ [][TrackedWords \subseteq TrackedWords']_vars

\* a reviewed word with a right and a wrong answer, next to another word
C22_Witness ==
    /\ Len(word_metrics) = 2
    /\ \E i \in 1..Len(word_metrics) :
          /\ word_metrics[i].encounter_count = 2
          /\ word_metrics[i].correct_count = 1
          /\ word_metrics[i].spaced_repetition_data # <<>>

\* C23: after a call of any of the eight services every array handed to it
\* has the same elements in the same order as before the call
C23_ServicesLeaveTheirInputs ==
    ret.op \in Services => ret.after = ret.before

\* analyzeLearningPatterns was called without a time range on a log that is
\* not in timestamp order and has ten events of a kind, so that
\* analyzeMetricPattern sorted
C23_Witness ==
    /\ ret.op = "analyzeLearningPatterns"
    /\ ret.argument.timeRange = <<>>
    /\ Len(SelectSeq(ret.before[1], LAMBDA p : p.metric_type = "accuracy_rate")) >= 10
    /\ ret.before[1] # SortByTimestamp(ret.before[1])
    /\ ret.after = ret.before

\* C24: after resetProgress learned_words, current_level, experience_points,
\* streak_days, last_study_date, study_sessions, word_metrics, learning_data,
\* learning_style, spaced_repetition, achievements and personalization equal
\* their initial values, and nothing but syncStatus keeps its previous value
C24_ResetRestoresTheInitialState ==
    ret.op = "resetProgress" =>
        /\ \A k \in ProgressKeys \ {"syncStatus"} : progress[k] = InitialProgress[k]
        /\ word_metrics = <<>>
        /\ learning_data = <<>>

\* C25: every pattern analyzeLearningPatterns returns has a trend_strength
\* that is a number in [0, 1], and a metric kind whose ten or more samples all
\* have the same value gets the trend stable
C25_TrendStrengthIsDefined ==
    ret.op = "analyzeLearningPatterns" =>
        \A j \in 1..Len(ret.patterns) :
            /\ ret.patterns[j].trend_strength # NaN
            /\ \A strength \in {ret.patterns[j].trend_strength[i] :
                                   i \in 1..Len(ret.patterns[j].trend_strength)} :
                  strength >= 0 /\ strength <= Micro
            /\ (\A p, q \in {ret.dataPoints[i] :
                                i \in {i \in 1..Len(ret.dataPoints) :
                                          ret.dataPoints[i].metric_type
                                              = ret.patterns[j].metric_type}} :
                    p.value = q.value)
                  => ret.patterns[j].trend = "stable"

\* C26: along the reviews of one item from no spaced-repetition state, each
\* schedule being written back, a review with quality >= 3 never returns an
\* interval_days smaller than the stored interval, and a review with
\* quality < 3 returns the interval 1
C26_IntervalGrowsAlongSuccesses ==
    ret.op = "updateWordSchedule" =>
        /\ FindMetrics(word_metrics, ret.word_id) # <<>>
        /\ FindMetrics(word_metrics, ret.word_id)[1].spaced_repetition_data
               = <<[next_review_date |-> ret.schedule.next_review_date,
                    ease_factor |-> ret.schedule.ease_factor,
                    next_interval |-> ret.schedule.interval_days,
                    repetition_number |-> ret.schedule.repetition_number]>>
        /\ ret.quality < 3 => ret.schedule.interval_days = 1
        /\ (ret.quality >= 3 /\ ret.prior # <<>>) =>
               \A prior \in {ret.prior[i] : i \in 1..Len(ret.prior)} :
                   ret.schedule.interval_days >= prior.next_interval

\* a successful review that multiplied a stored interval beyond six days, and
\* one that met the cap of maxInterval
C26_Witness ==
    /\ ret.op = "updateWordSchedule"
    /\ ret.quality >= 3
    /\ ret.prior # <<>>
    /\ ret.prior[1].next_interval > 6
    /\ ret.schedule.interval_days = maxInterval

\* C27: after updateWordSchedule ran at time t for a tracked word, the stored
\* next_review_date is t plus the stored next_interval days, and so at least a
\* day after t
C27_NextReviewCountsFromTheReview ==
    ret.op = "updateWordSchedule" =>
        \A m \in {word_metrics[i] : i \in {i \in 1..Len(word_metrics) :
                                             /\ word_metrics[i].word_id = ret.word_id
                                             /\ word_metrics[i].spaced_repetition_data # <<>>}} :
            /\ m.spaced_repetition_data[1].next_review_date
                   = addDays(ret.at, m.spaced_repetition_data[1].next_interval)
            /\ m.spaced_repetition_data[1].next_review_date >= ret.at + TicksPerDay

\* the entry of the word of a queue item, at the time of the call
EntryOf(item) == FindMetrics(word_metrics, item.word_id)[1]

\* the queue has at most maxItems items, no item is too_early, and urgent
\* items come before due items before optional items, items of equal priority
\* by days_overdue descending
QueueIsOrdered ==
    /\ Len(ret.queue) <= ret.maxItems
    /\ \A i \in 1..Len(ret.queue) : ret.queue[i].priority # "too_early"
    /\ \A i, j \in 1..Len(ret.queue) :
          i < j =>
              \/ priorityOrder(ret.queue[i].priority) < priorityOrder(ret.queue[j].priority)
              \/ /\ ret.queue[i].priority = ret.queue[j].priority
                 /\ ret.queue[i].days_overdue >= ret.queue[j].days_overdue

\* C28: getReviewQueue(maxItems) returns at most maxItems items, none of them
\* too_early, ordered by priority and then by days_overdue descending, and a
\* non-urgent item is in the queue only when the next_review_date of its
\* schedule has been reached
C28_QueueHoldsWhatIsDue ==
    (ret.op = "getReviewQueue" /\ ret.at = now) =>
        /\ QueueIsOrdered
        /\ \A i \in 1..Len(ret.queue) :
              (/\ ret.queue[i].priority # "urgent"
               /\ EntryOf(ret.queue[i]).spaced_repetition_data # <<>>)
                  => EntryOf(ret.queue[i]).spaced_repetition_data[1].next_review_date <= now

\* C29: getTemporalInsights returns a result with a recommended_time at a
\* full hour later than now and never throws, whatever the store holds, also
\* when analyzeLearningRhythm finds no optimal hour
C29_InsightsForEveryStore ==
    ret.op = "getTemporalInsights" =>
        /\ ret.insights.threw = ""
        /\ \A time \in {ret.insights[k].recommended_time :
                           k \in DOMAIN ret.insights \cap {"nextOptimalSession"}} :
              /\ time > ret.at
              /\ time <= ret.at + TicksPerDay

\* C30: when the response of a sync is merged, every word added to
\* learned_words after the sync read the state it uploads, the experience
\* points gained since then and every study session added since then are
\* still in the store
C30_SyncKeepsLocalChanges ==
    [][(/\ backend.sync # <<>>
        /\ backend.sync[1].pc = "merge"
        /\ backend'.sync = <<>>)
       => LET uploaded == backend.sync[1].body
          IN  /\ \A i \in 1..Len(progress.learned_words) :
                     (\A k \in 1..Len(uploaded.progress.learned_words) :
                          uploaded.progress.learned_words[k] # progress.learned_words[i])
                         => \E j \in 1..Len(progress'.learned_words) :
                                progress'.learned_words[j] = progress.learned_words[i]
              /\ progress.experience_points > uploaded.progress.experience_points
                     => progress'.experience_points >= progress.experience_points
              /\ \A i \in (Len(uploaded.sessions) + 1)..Len(progress.study_sessions) :
                     \E j \in 1..Len(progress'.study_sessions) :
                         /\ progress'.study_sessions[j].duration_minutes
                                = progress.study_sessions[i].duration_minutes
                         /\ progress'.study_sessions[j].words_practiced
                                = progress.study_sessions[i].words_practiced]_vars

====
